---- MODULE Spec2Model ----
(***************************************************************************)
(* State-machine model of the Trapezohe companion daemon.                  *)
(*                                                                         *)
(* The daemon is one event-loop process: a handler is one atomic action,   *)
(* and writeStoreNow one action per file operation.  The module holds one  *)
(* state machine per component, each with its own specification:           *)
(*   SpecCron           cron-store.mjs (src/unnamed/part_000, lines 1-95)   *)
(*   SpecHttp           server.mjs: origin check, rate limiter, routes      *)
(*   SpecSession        runtime.mjs: session life cycle and pruning         *)
(*   SpecSessionEvents  runtime.mjs: the event log, its cursors, listing    *)
(*   SpecRuns           run-store.mjs: createRun / updateRun in memory      *)
(*   SpecRunFiles       run-store.mjs: load, persist and the three files    *)
(* A component's actions leave the variables of the other components       *)
(* unchanged.  Date.now() is the shared variable now, advanced by Tick.    *)
(***************************************************************************)
EXTENDS Integers, Sequences, FiniteSets, TLC

VARIABLES
  now,            \* Date.now()
  cronStore,      \* cron-store.mjs `store`: [jobs, pending]
  cronFile,       \* content of cron-jobs.json
  ackResult,      \* the last call when it was ackPendingRuns: its argument, store and file before
  authFailures,   \* server.mjs `authFailures`: timestamps of recent failures
  lastResponse,   \* the last request handled and the response sent
  failWindow,     \* observer: times of the "invalid token" responses of the last window
  sess,           \* runtime.mjs session objects ever created, by id (the child's handlers hold them)
  sessions,       \* runtime.mjs `sessions`: the ids in the live map
  sessionEvents,  \* runtime.mjs `sessionEvents`
  nextSessionEventCursor,
  issued,         \* observer: the last cursor assigned, and the highest assigned before it
  lastList,       \* the last listSessionEvents call and its result
  poll,           \* observer: a client polling with after = the last nextCursor
  runStore,       \* run-store.mjs `store.runs`
  loaded,         \* run-store.mjs `loaded`
  persistTimer,   \* run-store.mjs `persistTimer` is armed
  writing,        \* the writeStoreNow in flight: its position and its payload
  runsFile,       \* content of runs.json
  runsBackup,     \* content of runs.json.bak
  runsTmp,        \* content of runs.json.tmp
  runResult,      \* the last run-store call and the value it returned
  runLog,         \* the last console.warn of loadRunStore
  created,        \* observer: the runIds loaded, then those created, in order
  approvalStore,  \* approval-store `store.approvals`
  approvalsLoaded,      \* approval-store `loaded`
  approvalPersistTimer, \* approval-store `persistTimer` is armed
  approvalsFile,  \* content of approvals.json
  approvalResult, \* the last approval-store call, the record it found and the value it returned
  servers,        \* McpManager `#servers`: name -> entry
  startingLocks,  \* McpManager `#startingLocks`
  procs,          \* the tool-server children spawned, with the transport made on each
  calls,          \* the startServer, restartServer and callTool calls made, each with its position
  stopReturned,   \* servers whose stopServer returned with no startServer called since
  exec,           \* runtime.mjs runCommand: the call, its locals, its timers and its child
  execOut,        \* observer: everything the child wrote and the error message appended
  currentPermissionPolicy, \* bin/cli.mjs `currentPermissionPolicy`
  lastPolicyCall, \* the last policy or exec request handled, and its outcome
  sessionProcs,   \* server.mjs view of the sessions started through the endpoint, by id
  sessionMap,     \* runtime.mjs `sessions` of these: the ids in the live map, oldest first
  sessionRunIndex,      \* server.mjs `sessionRunIndex`: the session ids that map to their run
  sessionRuns,    \* the state of the run record created for each session
  runUpdates,     \* the updateRun calls of the exit listener not yet applied
  exitListener,   \* the exit listener of the server is in `sessionExitListeners`
  serverOpen,     \* the server has not been closed
  daemon,         \* bin/cli.mjs: the daemon around its shutdown, its stores and its children
  idWorld,        \* what exists under the id x1: a session, a run, an approval
  idResponse,     \* the last request addressed to an id, and the status it was answered with
  transport,      \* one StdioTransport and its child process
  storeDisk,      \* the four store files, their .tmp files and the write in progress of each
  runLoad,        \* the loads of the runs store in flight and the callers that wait for one
  persist,        \* per store: debounce timers, writes in flight, persistPromise, file and flush call
  watched,        \* one session with its output, its exit listeners and what they were given
  sched           \* the cron scheduler: per job its timer in the map, the armed timers and the callbacks

Undefined == "undefined"

\* ------------------------------------------------------------------ bounds

\* Date.now() ranges over 1..MaxTime.
MaxTime == 3
\* Cap on the length of the uncompacted pending list.
MaxPending == 3
\* Number of sessions started in a run of the session life cycle.
MaxSessions == 2
\* Number of sessions started, and so of exit events, in a run of the event log.
MaxEventSessions == 3
\* Number of runs created on top of a loaded store.
MaxCreate == 3

\* ------------------------------------------------------------------ helpers

Range(s) == { s[i] : i \in 1..Len(s) }

Min(a, b) == IF a <= b THEN a ELSE b
Max(a, b) == IF a >= b THEN a ELSE b

cronVars == << cronStore, cronFile, ackResult >>
httpVars == << authFailures, lastResponse, failWindow >>

sessVars == << sess, sessions, sessionEvents, nextSessionEventCursor, issued, lastList,
              poll >>

runFileVars == << writing, runsFile, runsBackup, runsTmp >>
runVars == << runStore, loaded, persistTimer, runFileVars, runResult, runLog, created >>
mcpVars == << servers, startingLocks, procs, calls, stopReturned >>
execVars == << exec, execOut >>
policyVars == << currentPermissionPolicy, lastPolicyCall >>
sessionRunVars == << sessionProcs, sessionMap, sessionRunIndex, sessionRuns, runUpdates, exitListener,
                    serverOpen >>
daemonVars == << daemon >>
idRouteVars == << idWorld, idResponse >>
transportVars == << transport >>
diskVars == << storeDisk >>
loadVars == << runLoad >>
persistVars == << persist >>
watchVars == << watched >>
schedVars == << sched >>
approvalVars == << approvalStore, approvalsLoaded, approvalPersistTimer, approvalsFile,
                  approvalResult >>

\* What each component leaves alone.
notCron == << now, httpVars, sessVars, runVars, approvalVars, mcpVars, execVars, policyVars, sessionRunVars, daemonVars, idRouteVars, transportVars, diskVars, loadVars, persistVars, watchVars, schedVars >>
notHttp == << now, cronVars, sessVars, runVars, approvalVars, mcpVars, execVars, policyVars, sessionRunVars, daemonVars, idRouteVars, transportVars, diskVars, loadVars, persistVars, watchVars, schedVars >>
notSess == << now, cronVars, httpVars, runVars, approvalVars, mcpVars, execVars, policyVars, sessionRunVars, daemonVars, idRouteVars, transportVars, diskVars, loadVars, persistVars, watchVars, schedVars >>
notRuns == << now, cronVars, httpVars, sessVars, approvalVars, mcpVars, execVars, policyVars, sessionRunVars, daemonVars, idRouteVars, transportVars, diskVars, loadVars, persistVars, watchVars, schedVars >>
notApprovals == << now, cronVars, httpVars, sessVars, runVars, mcpVars, execVars, policyVars, sessionRunVars, daemonVars, idRouteVars, transportVars, diskVars, loadVars, persistVars, watchVars, schedVars >>
notMcp == << now, cronVars, httpVars, sessVars, runVars, approvalVars, execVars, policyVars, sessionRunVars, daemonVars, idRouteVars, transportVars, diskVars, loadVars, persistVars, watchVars, schedVars >>
notExec == << now, cronVars, httpVars, sessVars, runVars, approvalVars, mcpVars, policyVars, sessionRunVars, daemonVars, idRouteVars, transportVars, diskVars, loadVars, persistVars, watchVars, schedVars >>
notPolicy == << now, cronVars, httpVars, sessVars, runVars, approvalVars, mcpVars,
               execVars, sessionRunVars, daemonVars, idRouteVars, transportVars, diskVars, loadVars, persistVars, watchVars, schedVars >>
notSessionRuns == << now, cronVars, httpVars, sessVars, runVars, approvalVars, mcpVars,
                    execVars, policyVars, daemonVars, idRouteVars, transportVars, diskVars, loadVars, persistVars, watchVars, schedVars >>
notDaemon == << now, cronVars, httpVars, sessVars, runVars, approvalVars, mcpVars, execVars, policyVars, sessionRunVars, idRouteVars, transportVars, diskVars, loadVars, persistVars, watchVars, schedVars >>
notIdRoute == << now, cronVars, httpVars, sessVars, runVars, approvalVars, mcpVars, execVars, policyVars, sessionRunVars, daemonVars, transportVars, diskVars, loadVars, persistVars, watchVars, schedVars >>
notTransport == << now, cronVars, httpVars, sessVars, runVars, approvalVars, mcpVars, execVars, policyVars, sessionRunVars, daemonVars, idRouteVars, diskVars, loadVars, persistVars, watchVars, schedVars >>
notDisk == << now, cronVars, httpVars, sessVars, runVars, approvalVars, mcpVars, execVars, policyVars, sessionRunVars, daemonVars, idRouteVars, transportVars, loadVars, persistVars, watchVars, schedVars >>
notLoad == << now, cronVars, httpVars, sessVars, runVars, approvalVars, mcpVars, execVars, policyVars, sessionRunVars, daemonVars, idRouteVars, transportVars, diskVars, persistVars, watchVars, schedVars >>
notPersist == << now, cronVars, httpVars, sessVars, runVars, approvalVars, mcpVars, execVars, policyVars, sessionRunVars, daemonVars, idRouteVars, transportVars, diskVars, loadVars, watchVars, schedVars >>
notWatch == << now, cronVars, httpVars, sessVars, runVars, approvalVars, mcpVars, execVars, policyVars, sessionRunVars, daemonVars, idRouteVars, transportVars, diskVars, loadVars, persistVars, schedVars >>
notSched == << now, cronVars, httpVars, sessVars, runVars, approvalVars, mcpVars, execVars, policyVars, sessionRunVars, daemonVars, idRouteVars, transportVars, diskVars, loadVars, persistVars, watchVars >>
notClock == << cronVars, httpVars, sessVars, runVars, approvalVars, mcpVars, execVars, policyVars, sessionRunVars, daemonVars, idRouteVars, transportVars, diskVars, loadVars, persistVars, watchVars, schedVars >>
vars == << now, cronVars, httpVars, sessVars, runVars, approvalVars, mcpVars, execVars, policyVars, sessionRunVars, daemonVars, idRouteVars, transportVars, diskVars, loadVars, persistVars, watchVars, schedVars >>

\* ------------------------------------------------------------------ clock

Tick ==
  /\ now < MaxTime
  /\ now' = now + 1
  /\ UNCHANGED notClock

\* ==================================================================
\* cron-store.mjs
\* ==================================================================

TaskIds == { "task-a", "task-b" }

\* saveStore(): the file receives the serialised store.
saveStore(store) == [ exists |-> TRUE, content |-> store ]

NoAck == [ op |-> "", taskIds |-> [ isArray |-> FALSE, ids |-> {} ],
           store |-> [ jobs |-> << >>, pending |-> << >> ],
           file |-> [ exists |-> FALSE, content |-> [ jobs |-> << >>, pending |-> << >> ] ] ]

CronInit ==
  /\ ackResult = NoAck
  /\ cronStore = [ jobs |-> << >>, pending |-> << >> ]
  /\ cronFile = [ exists |-> FALSE, content |-> [ jobs |-> << >>, pending |-> << >> ] ]

\* upsertJob(job)
upsertJob(job) ==
  LET jobs == cronStore.jobs
      hits == { i \in 1..Len(jobs) : jobs[i].id = job.id }
      idx  == IF hits = {} THEN 0 ELSE CHOOSE i \in hits : \A j \in hits : i <= j
      next == IF idx > 0 THEN [ jobs EXCEPT ![idx] = job ] ELSE Append(jobs, job)
  IN /\ cronStore' = [ cronStore EXCEPT !.jobs = next ]
     /\ cronFile' = saveStore(cronStore')
     /\ ackResult' = NoAck
     /\ UNCHANGED notCron

\* removeJob(taskId): saves only when a job was removed.
removeJob(taskId) ==
  LET KeepJob(j) == j.id # taskId
      next == SelectSeq(cronStore.jobs, KeepJob)
  IN /\ cronStore' = [ cronStore EXCEPT !.jobs = next ]
     /\ cronFile' = IF Len(next) # Len(cronStore.jobs) THEN saveStore(cronStore') ELSE cronFile
     /\ ackResult' = NoAck
     /\ UNCHANGED notCron

\* addPendingRun(taskId): store.pending.push({ taskId, missedAt: Date.now() })
addPendingRun(taskId) ==
  /\ Len(cronStore.pending) < MaxPending
  /\ cronStore' = [ cronStore EXCEPT
                      !.pending = Append(@, [ taskId |-> taskId, missedAt |-> now ]) ]
  /\ cronFile' = saveStore(cronStore')
  /\ ackResult' = NoAck
  /\ UNCHANGED notCron

\* store.pending.filter((p) => !idSet.has(p.taskId))
ackedPending_FirstOnly(pending, ids) ==
  LET hits == { i \in 1..Len(pending) : pending[i].taskId \in ids }
      first == CHOOSE i \in hits : \A j \in hits : i <= j
  IN  IF hits = {} THEN pending
      ELSE SubSeq(pending, 1, first - 1) \o SubSeq(pending, first + 1, Len(pending))

ackedPending(pending, ids) ==
  LET KeepPending(p) == p.taskId \notin ids
  IN  SelectSeq(pending, KeepPending)

\* ackPendingRuns(taskIds); taskIds is an array, of which ids are the
\* elements, or another value
ackPendingRuns(taskIds) ==
  /\ IF ~taskIds.isArray \/ taskIds.ids = {}
       THEN UNCHANGED << cronStore, cronFile >>
       ELSE /\ cronStore' = [ cronStore EXCEPT !.pending = ackedPending(@, taskIds.ids) ]
            /\ cronFile' = saveStore(cronStore')
  /\ ackResult' = [ op |-> "ackPendingRuns", taskIds |-> taskIds, store |-> cronStore,
                    file |-> cronFile ]
  /\ UNCHANGED notCron

\* loadCronStore(): reads the file back (ENOENT gives the empty store).
loadCronStore ==
  /\ cronStore' = IF ~cronFile.exists
                  THEN [ jobs |-> << >>, pending |-> << >> ]
                  ELSE cronFile.content
  /\ UNCHANGED cronFile
  /\ ackResult' = NoAck
  /\ UNCHANGED notCron

Jobs == { [ id |-> t, enabled |-> e ] : t \in TaskIds, e \in BOOLEAN }

\* Arguments of ackPendingRuns: arrays of task ids, and a string and
\* undefined in the place of the array
AckInputs ==
  { [ isArray |-> TRUE, ids |-> ids ] : ids \in SUBSET TaskIds }
    \cup { [ isArray |-> FALSE, ids |-> { "task-a" } ], [ isArray |-> FALSE, ids |-> {} ] }

NextCron ==
  \/ \E job \in Jobs : upsertJob(job)
  \/ \E t \in TaskIds : removeJob(t)
  \/ \E t \in TaskIds : addPendingRun(t)
  \/ \E taskIds \in AckInputs : ackPendingRuns(taskIds)
  \/ loadCronStore
  \/ Tick

\* C1 (as claimed): the pending list holds at most one entry per taskId.
C1_OnePendingPerTask ==
  \A i, j \in 1..Len(cronStore.pending) :
    cronStore.pending[i].taskId = cronStore.pending[j].taskId => i = j

\* ==================================================================
\* server.mjs: authorisation, rate limiter, route table
\* ==================================================================

\* Scaled for model checking: the source has 60_000 ms and 20 failures.
AUTH_WINDOW_MS == 1
AUTH_MAX_FAILURES == 3

\* The configured token (createCompanionServer's `token`).
Token == "secret"

RemoteAddrs == { "127.0.0.1", "::1", "::ffff:127.0.0.1", "192.168.1.7", Undefined }
Methods == { "GET", "POST", "DELETE", "OPTIONS" }
AuthHeaders == { "", "Bearer secret", "Bearer wrong" }

\* isLoopback(addr)
isLoopback(addr) ==
  IF addr = Undefined THEN FALSE
  ELSE addr = "127.0.0.1" \/ addr = "::1" \/ addr = "::ffff:127.0.0.1"

\* auth.startsWith('Bearer ') ? auth.slice('Bearer '.length).trim() : ''
BearerOf(auth) ==
  CASE auth = "Bearer secret" -> "secret"
    [] auth = "Bearer wrong"  -> "wrong"
    [] OTHER                  -> ""

\* safeTokenCompare(a, b)
safeTokenCompare(a, b) ==
  IF a = "" \/ b = "" THEN FALSE ELSE a = b

\* The while loop of isAuthRateLimited(): drops the expired head entries.
RECURSIVE DropExpired(_, _)
DropExpired(f, cutoff) ==
  IF Len(f) > 0 /\ f[1] < cutoff THEN DropExpired(Tail(f), cutoff) ELSE f

\* Mutant of isAuthRateLimited: off by one.
isAuthRateLimited_OffByOne(f) == Len(f) > AUTH_MAX_FAILURES

\* isAuthRateLimited(), on the array left by DropExpired
isAuthRateLimited(f) == Len(f) >= AUTH_MAX_FAILURES

\* recordAuthFailure()
recordAuthFailure(f) == Append(f, now)

\* authorize(req, token): the result, and the authFailures array it leaves.
authorize(remote, auth) ==
  IF ~isLoopback(remote)
  THEN [ ok |-> FALSE, error |-> "Only loopback clients are allowed.",
         failures |-> authFailures ]
  ELSE LET f == DropExpired(authFailures, now - AUTH_WINDOW_MS)
       IN IF isAuthRateLimited(f)
          THEN [ ok |-> FALSE, error |-> "Too many failed authentication attempts.",
                 failures |-> f ]
          ELSE IF ~safeTokenCompare(BearerOf(auth), Token)
          THEN [ ok |-> FALSE, error |-> "Unauthorized: invalid token.",
                 failures |-> recordAuthFailure(f) ]
          ELSE [ ok |-> TRUE, error |-> "", failures |-> f ]

\* The route table of the request handler, in the order of the source.  paths
\* are the request paths the route's test accepts (a capture is written ":id";
\* a pattern also accepts the fixed paths of its shape); statuses are the
\* statuses the route's handler sends once authorize() has passed.
RouteTable == <<
  [ name |-> "healthz",          method |-> "GET",    paths |-> {"/healthz"}, statuses |-> {200} ],
  [ name |-> "exec",             method |-> "POST",   paths |-> {"/api/runtime/exec", "/api/local-runtime/exec"}, statuses |-> {200, 400, 403} ],
  [ name |-> "sessionStart",     method |-> "POST",   paths |-> {"/api/runtime/session/start"}, statuses |-> {200, 400, 403} ],
  [ name |-> "sessionList",      method |-> "GET",    paths |-> {"/api/runtime/sessions"}, statuses |-> {200, 400} ],
  [ name |-> "sessionLog",       method |-> "GET",    paths |-> {"/api/runtime/sessions/:id/log"}, statuses |-> {200, 400, 404} ],
  [ name |-> "sessionStatus",    method |-> "GET",    paths |-> {"/api/runtime/session/:id", "/api/runtime/session/start"}, statuses |-> {200, 404} ],
  [ name |-> "sessionStop",      method |-> "POST",   paths |-> {"/api/runtime/session/:id/stop"}, statuses |-> {200, 400, 404} ],
  [ name |-> "sessionWrite",     method |-> "POST",   paths |-> {"/api/runtime/session/:id/write"}, statuses |-> {200, 400} ],
  [ name |-> "sessionSendKeys",  method |-> "POST",   paths |-> {"/api/runtime/session/:id/send-keys"}, statuses |-> {200, 400} ],
  [ name |-> "sessionEvents",    method |-> "GET",    paths |-> {"/api/runtime/session-events"}, statuses |-> {200, 400} ],
  [ name |-> "runDiagnostics",   method |-> "GET",    paths |-> {"/api/runtime/runs/diagnostics"}, statuses |-> {200, 400} ],
  [ name |-> "runList",          method |-> "GET",    paths |-> {"/api/runtime/runs"}, statuses |-> {200, 400} ],
  [ name |-> "runById",          method |-> "GET",    paths |-> {"/api/runtime/runs/:id", "/api/runtime/runs/diagnostics"}, statuses |-> {200, 400, 404} ],
  [ name |-> "approvalCreate",   method |-> "POST",   paths |-> {"/api/runtime/approvals"}, statuses |-> {201, 400} ],
  [ name |-> "approvalPending",  method |-> "GET",    paths |-> {"/api/runtime/approvals/pending"}, statuses |-> {200, 400} ],
  [ name |-> "approvalResolve",  method |-> "POST",   paths |-> {"/api/runtime/approvals/:id/resolve"}, statuses |-> {200, 400, 404} ],
  [ name |-> "approvalById",     method |-> "GET",    paths |-> {"/api/runtime/approvals/:id", "/api/runtime/approvals/pending"}, statuses |-> {200, 400, 404} ],
  [ name |-> "mcpServers",       method |-> "GET",    paths |-> {"/api/mcp/servers"}, statuses |-> {200} ],
  [ name |-> "mcpTools",         method |-> "GET",    paths |-> {"/api/mcp/tools"}, statuses |-> {200} ],
  [ name |-> "mcpToolCall",      method |-> "POST",   paths |-> {"/api/mcp/tools/call"}, statuses |-> {200, 400} ],
  [ name |-> "mcpRestart",       method |-> "POST",   paths |-> {"/api/mcp/servers/:id/restart"}, statuses |-> {200, 500} ],
  [ name |-> "policyGet",        method |-> "GET",    paths |-> {"/api/security/policy"}, statuses |-> {200} ],
  [ name |-> "policyUpdate",     method |-> "POST",   paths |-> {"/api/security/policy"}, statuses |-> {200, 400} ],
  [ name |-> "cronJobs",         method |-> "GET",    paths |-> {"/api/cron/jobs"}, statuses |-> {200} ],
  [ name |-> "cronUpsert",       method |-> "POST",   paths |-> {"/api/cron/jobs"}, statuses |-> {200, 400} ],
  [ name |-> "cronDelete",       method |-> "DELETE", paths |-> {"/api/cron/jobs/:id"}, statuses |-> {200} ],
  [ name |-> "cronPending",      method |-> "GET",    paths |-> {"/api/cron/pending"}, statuses |-> {200} ],
  [ name |-> "cronAck",          method |-> "POST",   paths |-> {"/api/cron/pending/ack"}, statuses |-> {200, 400} ],
  [ name |-> "skillExtract",     method |-> "POST",   paths |-> {"/api/skills/extract"}, statuses |-> {200, 400} ],
  [ name |-> "skillDelete",      method |-> "DELETE", paths |-> {"/api/skills/:id", "/api/skills/extract"}, statuses |-> {200, 400} ]
>>

\* Request paths: those of the table, and one that no route matches.
Paths == UNION { RouteTable[i].paths : i \in 1..Len(RouteTable) } \cup { "/nope" }

\* The first route of the table that matches method and path; 0 when none does.
matchRoute(method, path) ==
  LET hits == { i \in 1..Len(RouteTable) :
                  RouteTable[i].method = method /\ path \in RouteTable[i].paths }
  IN IF hits = {} THEN 0 ELSE CHOOSE i \in hits : \A j \in hits : i <= j

\* matchRoute, tabulated.
RouteOf == [ mp \in Methods \X Paths |-> matchRoute(mp[1], mp[2]) ]

\* The requests sent: every method and path some route accepts, a preflight,
\* a path no route accepts, and a method no route accepts for its path.
Requests ==
  { mp \in Methods \X Paths : RouteOf[mp] # 0 }
    \cup { << "OPTIONS", "/healthz" >>, << "OPTIONS", "/nope" >>,
           << "GET", "/nope" >>, << "DELETE", "/healthz" >> }

NoResponse ==
  [ remote |-> Undefined, kind |-> "", auth |-> "", status |-> 0, error |-> "",
    windowFull |-> FALSE ]

HttpInit ==
  /\ authFailures = << >>
  /\ lastResponse = NoResponse
  /\ failWindow = << >>

\* Observer: the failure times still within the window at time t.
InWindow(w, t) ==
  LET Recent(x) == t - x <= AUTH_WINDOW_MS
  IN SelectSeq(w, Recent)

\* sendJson(res, status, payload), with the request it answers.  kind tells
\* how the request was dispatched: "preflight", "none" (no route) or "route".
sendJson(remote, kind, auth, status, error) ==
  /\ lastResponse' = [ remote |-> remote, kind |-> kind, auth |-> auth,
                       status |-> status, error |-> error,
                       windowFull |-> Len(InWindow(failWindow, now)) >= AUTH_MAX_FAILURES ]
  /\ failWindow' = IF error = "Unauthorized: invalid token."
                   THEN Append(InWindow(failWindow, now), now)
                   ELSE InWindow(failWindow, now)

\* The request handler of createCompanionServer.
handleRequest(remote, method, path, auth) ==
  LET r == RouteOf[<< method, path >>]
  IN /\ IF method = "OPTIONS"
        THEN /\ sendJson(remote, "preflight", auth, 200, "")
             /\ UNCHANGED authFailures
        ELSE IF r = 0
        THEN /\ sendJson(remote, "none", auth, 404, "Not found")
             /\ UNCHANGED authFailures
        ELSE LET a == authorize(remote, auth)
             IN /\ authFailures' = a.failures
                /\ IF ~a.ok
                   THEN sendJson(remote, "route", auth, 401, a.error)
                   ELSE \E st \in RouteTable[r].statuses :
                          sendJson(remote, "route", auth, st, "")
     /\ UNCHANGED notHttp

\* ==================================================================
\* runtime.mjs: session lifecycle, session events, cursors
\* ==================================================================

\* Scaled for model checking: the source defaults are 500 events, 200
\* sessions and a TTL of one hour.
MAX_SESSION_EVENT_COUNT == 2
MAX_SESSION_COUNT == 1
SESSION_TTL_MS == 1
DEFAULT_EVENT_LIST_LIMIT == 50
MAX_EVENT_LIST_LIMIT == 500
\* Number.MAX_SAFE_INTEGER, as far as the model's cursors are concerned.
MAX_SAFE_INTEGER == 1000

\* Stand-ins, of the type of the values they replace: a query parameter that
\* parseInt reads as NaN, a timestamp that is undefined, an exit code that is
\* undefined or null.
NaN == -999
NoTime == 0
NoCode == -2

SessInit ==
  /\ sess = << >>
  /\ sessions = {}
  /\ sessionEvents = << >>
  /\ nextSessionEventCursor = 1
  /\ issued = [ last |-> 0, maxBefore |-> 0 ]
  /\ lastList = [ valid |-> FALSE ]
  /\ poll = [ after |-> 0, seen |-> {}, twice |-> FALSE ]

\* clampInteger(input, { defaultValue, min, max }); a value parseInt does not
\* read as a number is NaN.
clampInteger(input, defaultValue, min, max) ==
  IF input = NaN THEN defaultValue ELSE Min(Max(input, min), max)

\* pushSessionEvent(event): append, then cut the head down to the maximum.
pushSessionEvent(events, event) ==
  LET pushed == Append(events, event)
  IN IF Len(pushed) > MAX_SESSION_EVENT_COUNT
     THEN SubSeq(pushed, Len(pushed) - MAX_SESSION_EVENT_COUNT + 1, Len(pushed))
     ELSE pushed

\* emitSessionExited(session): the event takes nextSessionEventCursor++.
emitSessionExited(id) ==
  /\ sessionEvents' = pushSessionEvent(sessionEvents,
                        [ cursor |-> nextSessionEventCursor, sessionId |-> id ])
  /\ nextSessionEventCursor' = nextSessionEventCursor + 1
  /\ issued' = [ last |-> nextSessionEventCursor,
                  maxBefore |-> Max(issued.last, issued.maxBefore) ]

\* Mutant of finalizeSessionExit: finishedAt is left unset.
finalizeSessionExit_NoFinishedAt(id, exitCode, handler) ==
  IF sess[id].status = "exited"
  THEN /\ sess' = [ sess EXCEPT ![id][handler] = TRUE ]
       /\ UNCHANGED << sessionEvents, nextSessionEventCursor, issued, lastList, poll >>
  ELSE /\ sess' = [ sess EXCEPT ![id].status = "exited", ![id].exitCode = exitCode,
                                ![id][handler] = TRUE ]
       /\ emitSessionExited(id)
       /\ lastList' = [ valid |-> FALSE ]
       /\ UNCHANGED poll

\* finalizeSessionExit(session, options), as called by the child's handler
\* `handler` ("errorFired" for child.on('error'), "closeFired" for
\* child.on('close')); it returns early on a session that has exited.
finalizeSessionExit(id, exitCode, handler) ==
  IF sess[id].status = "exited"
  THEN /\ sess' = [ sess EXCEPT ![id][handler] = TRUE ]
       /\ UNCHANGED << sessionEvents, nextSessionEventCursor, issued, lastList, poll >>
  ELSE /\ sess' = [ sess EXCEPT ![id].status = "exited", ![id].exitCode = exitCode,
                                ![id].finishedAt = now, ![id][handler] = TRUE ]
       /\ emitSessionExited(id)
       /\ lastList' = [ valid |-> FALSE ]
       /\ UNCHANGED poll

\* startCommandSession({ id, ... }): the caller's ids are fresh (16 random
\* bytes), here the next index.
startCommandSession(id) ==
     /\ id = Len(sess) + 1
     /\ sess' = Append(sess, [ status |-> "running", startedAt |-> now,
                               finishedAt |-> NoTime, exitCode |-> NoCode,
                               errorFired |-> FALSE, closeFired |-> FALSE ])
     /\ sessions' = sessions \cup { id }
     /\ UNCHANGED << sessionEvents, nextSessionEventCursor, issued, lastList, poll >>
     /\ UNCHANGED notSess

\* child.on('error'): the child reports an error at most once.
childError(id) ==
  /\ id \in DOMAIN sess
  /\ ~sess[id].errorFired
  /\ finalizeSessionExit(id, -1, "errorFired")
  /\ UNCHANGED sessions
  /\ UNCHANGED notSess

\* child.on('close', code): at most once; code is a number, or null when a
\* signal ended the child.
ExitCodes == { 0, NoCode }

childClose(id, code) ==
  /\ id \in DOMAIN sess
  /\ ~sess[id].closeFired
  /\ finalizeSessionExit(id, IF code = NoCode THEN -1 ELSE code, "closeFired")
  /\ UNCHANGED sessions
  /\ UNCHANGED notSess

\* pruneSessions(): the time a session is sorted by, and the sort order (the
\* sort is stable, the map iterates in insertion order).
PruneTime(id) ==
  IF sess[id].finishedAt # NoTime THEN sess[id].finishedAt ELSE sess[id].startedAt

PruneBefore(a, b) ==
  PruneTime(a) < PruneTime(b) \/ (PruneTime(a) = PruneTime(b) /\ a < b)

pruneSessions ==
  LET cutoff == now - SESSION_TTL_MS
      kept == { id \in sessions :
                  ~(sess[id].status = "exited" /\ sess[id].finishedAt < cutoff) }
      removeCount == Max(0, Cardinality(kept) - MAX_SESSION_COUNT)
      dropped == { id \in kept :
                     Cardinality({ o \in kept : PruneBefore(o, id) }) < removeCount }
  IN /\ sessions' = kept \ dropped
     /\ UNCHANGED << sess, sessionEvents, nextSessionEventCursor, issued, lastList, poll >>
     /\ UNCHANGED notSess

\* cleanupAllSessions()
cleanupAllSessions ==
  /\ sessions' = {}
  /\ sessionEvents' = << >>
  /\ nextSessionEventCursor' = 1
  /\ lastList' = [ valid |-> FALSE ]
  /\ UNCHANGED << sess, issued, poll >>
  /\ UNCHANGED notSess

\* events.filter(cursor > after).sort(by cursor).slice(0, limit)
RECURSIVE SortByCursor(_)
SortByCursor(evs) ==
  IF evs = {} THEN << >>
  ELSE LET first == CHOOSE e \in evs : \A f \in evs : e.cursor <= f.cursor
       IN << first >> \o SortByCursor(evs \ { first })

EventsAfter(after) ==
  LET Newer(e) == e.cursor > after
  IN SortByCursor(Range(SelectSeq(sessionEvents, Newer)))

\* listSessionEvents(options): the value returned.
listSessionEventsResult(rawAfter, rawLimit) ==
  LET after == clampInteger(rawAfter, 0, 0, MAX_SAFE_INTEGER)
      limit == clampInteger(rawLimit, DEFAULT_EVENT_LIST_LIMIT, 1, MAX_EVENT_LIST_LIMIT)
      found == EventsAfter(after)
      events == SubSeq(found, 1, Min(limit, Len(found)))
      nextCursor == IF Len(events) > 0 THEN events[Len(events)].cursor
                    ELSE Max(after, nextSessionEventCursor - 1)
  IN [ events |-> events, nextCursor |-> nextCursor,
       hasMore |-> \E i \in 1..Len(sessionEvents) : sessionEvents[i].cursor > nextCursor ]

\* A call whose after is the nextCursor of the polling client's previous call
\* (0 at first) is that client's next poll.
listSessionEvents(rawAfter, rawLimit) ==
  LET result == listSessionEventsResult(rawAfter, rawLimit)
      ids == { result.events[i].sessionId : i \in 1..Len(result.events) }
      byPoll == rawAfter = poll.after
  IN
  /\ lastList' = [ valid |-> TRUE, after |-> rawAfter, limit |-> rawLimit,
                   byPoll |-> byPoll, result |-> result ]
  /\ poll' = IF byPoll
             THEN [ after |-> result.nextCursor, seen |-> poll.seen \cup ids,
                    twice |-> poll.twice \/ ids \cap poll.seen # {} ]
             ELSE poll
  /\ UNCHANGED << sess, sessions, sessionEvents, nextSessionEventCursor, issued >>
  /\ UNCHANGED notSess

\* The values the after and limit query parameters take.
AfterInputs == { NaN, -1 } \cup (0..MaxEventSessions)
LimitInputs == { NaN, 0, 1, 2, 600 }

NextSession ==
  \/ \E id \in 1..MaxSessions : startCommandSession(id)
  \/ \E id \in 1..MaxSessions : childError(id)
  \/ \E id \in 1..MaxSessions, code \in ExitCodes : childClose(id, code)
  \/ pruneSessions
  \/ cleanupAllSessions
  \/ Tick

\* The event log and its readers: sessions exit, the log is cut and reset, and
\* clients list it.
NextSessionEvents ==
  \/ \E id \in 1..MaxEventSessions : startCommandSession(id)
  \/ \E id \in 1..MaxEventSessions, code \in ExitCodes : childClose(id, code)
  \/ cleanupAllSessions
  \/ \E a \in AfterInputs, l \in LimitInputs : listSessionEvents(a, l)

\* ---------------------------------------------------------------- run store
\* run-store.mjs.  A run is [runId, state, createdAt, updatedAt, startedAt,
\* finishedAt]; the envelope's type, summary, error, meta and deliveryState
\* play no part in what follows and are left out.

\* MAX_RUNS (200 unless the environment says otherwise), scaled down.
MAX_RUNS == 2
RUN_STATES == { "queued", "running", "waiting_approval", "retrying", "done", "failed" }

\* Stand-in, of the type of a timestamp, of the value undefined (of a key the
\* object does not have).
Absent == -1
\* Stand-ins, in a patch, of a key the patch does not have.
NoKey == -2
NoStateKey == "(no key)"
\* null, as a value of the type of a run.
Null == [ null |-> TRUE ]

RunIds == { "r1", "r2", "r3" }

\* In every file below: ENOENT, content that JSON.parse rejects, or a
\* snapshot { runs }.
Enoent == [ kind |-> "ENOENT", runs |-> << >> ]
Malformed == [ kind |-> "malformed", runs |-> << >> ]
Snapshot(runs) == [ kind |-> "json", runs |-> runs ]

RunInit ==
  /\ runStore = << >>
  /\ loaded = FALSE
  /\ persistTimer = FALSE
  /\ writing = "idle"
  /\ runsFile = Enoent
  /\ runsBackup = Enoent
  /\ runsTmp = Enoent
  /\ runResult = [ op |-> "", value |-> Null ]
  /\ runLog = ""
  /\ created = << >>

\* normalizeState(value, fallback): the values drawn are lower case and trimmed.
normalizeState(value, fallback) ==
  IF value \in RUN_STATES THEN value ELSE fallback

\* normalizeTimestamp(value), on undefined and on integers.
normalizeTimestamp(value) ==
  IF value = Absent THEN Absent ELSE Max(0, value)

\* a || b, on timestamps: undefined and 0 are falsy.
OrElse(a, b) == IF a = Absent \/ a = 0 THEN b ELSE a

\* normalizeRun(input)
normalizeRun(input) ==
  IF input.runId = "" THEN Null
  ELSE
    LET createdAt == OrElse(normalizeTimestamp(input.createdAt), now)
        updatedAt == OrElse(normalizeTimestamp(input.updatedAt), createdAt)
        startedAt == normalizeTimestamp(input.startedAt)
        finishedAt == normalizeTimestamp(input.finishedAt)
        stateFallback ==
          IF finishedAt # Absent
          THEN (IF finishedAt # 0 /\ startedAt # Absent THEN "done" ELSE "failed")
          ELSE "queued"
    IN [ runId |-> input.runId,
         state |-> normalizeState(input.state, stateFallback),
         createdAt |-> createdAt, updatedAt |-> updatedAt,
         startedAt |-> startedAt, finishedAt |-> finishedAt ]

\* readStoreFile(filePath): it throws ENOENT, or what JSON.parse throws, or
\* returns the runs that normalizeRun accepts.
readStoreFile(file) ==
  IF file.kind = "json"
  THEN LET IsRun(r) == r # Null
       IN [ ok |-> TRUE, code |-> "",
            runs |-> SelectSeq([ i \in 1..Len(file.runs) |-> normalizeRun(file.runs[i]) ],
                               IsRun) ]
  ELSE [ ok |-> FALSE, code |-> IF file.kind = "ENOENT" THEN "ENOENT" ELSE "", runs |-> << >> ]

\* Mutant of trimStoreRuns: the oldest runs are kept.
trimStoreRuns_KeepOldest(runs) ==
  IF Len(runs) <= MAX_RUNS THEN runs ELSE SubSeq(runs, 1, MAX_RUNS)

\* trimStoreRuns()
trimStoreRuns(runs) ==
  IF Len(runs) <= MAX_RUNS THEN runs
  ELSE SubSeq(runs, Len(runs) - MAX_RUNS + 1, Len(runs))


\* createRun(input): input.runId is the caller's, or 16 random bytes, and in
\* both cases the id of no run in the store; a state the caller leaves out is
\* 'queued'.
createRun(input) ==
  LET createdAt == now
      normalized == normalizeRun([ runId |-> input.runId,
                                   state |-> IF input.state = Undefined THEN "queued"
                                             ELSE input.state,
                                   createdAt |-> createdAt, updatedAt |-> createdAt,
                                   startedAt |-> input.startedAt,
                                   finishedAt |-> input.finishedAt ])
  IN /\ loaded
     /\ Len(created) < MaxCreate
     /\ \A i \in 1..Len(runStore) : runStore[i].runId # input.runId
     /\ runStore' = trimStoreRuns(Append(runStore, normalized))
     /\ persistTimer' = TRUE
     /\ runResult' = [ op |-> "createRun", value |-> normalized ]
     /\ created' = Append(created, input.runId)
     /\ UNCHANGED << loaded, runFileVars, runLog >>
     /\ UNCHANGED notRuns

\* { ...current, ...patch }: a key of the patch wins, whatever its value.
Spread(current, patched, nokey) == IF patched = nokey THEN current ELSE patched

\* Mutant of autoFill: nothing is filled in.
autoFill_Nothing(next, updatedAt) == next

\* updateRun's `final`: the time of the update fills in a finishedAt or a
\* startedAt that the state calls for and the run does not have.
autoFill(next, updatedAt) ==
  [ next EXCEPT
      !.finishedAt = IF next.state \in { "done", "failed" } /\ @ = Absent
                     THEN updatedAt ELSE @,
      !.startedAt = IF next.state \in { "running", "retrying" } /\ @ = Absent
                    THEN updatedAt ELSE @ ]

\* updateRun(runId, patch)
updateRun(runId, patch) ==
  LET found == { i \in 1..Len(runStore) : runStore[i].runId = runId }
  IN
  /\ loaded
  /\ IF found = {}
     THEN /\ runResult' = [ op |-> "updateRun", value |-> Null ]
          /\ UNCHANGED << runStore, persistTimer >>
     ELSE LET index == CHOOSE i \in found : \A j \in found : i <= j
              current == runStore[index]
              updatedAt == now
              next == normalizeRun(
                        [ runId |-> current.runId,
                          state |-> Spread(current.state, patch.state, NoStateKey),
                          createdAt |-> current.createdAt,
                          updatedAt |-> updatedAt,
                          startedAt |-> Spread(current.startedAt, patch.startedAt, NoKey),
                          finishedAt |-> Spread(current.finishedAt, patch.finishedAt, NoKey) ])
              final == autoFill(next, updatedAt)
          IN /\ runStore' = [ runStore EXCEPT ![index] = final ]
             /\ persistTimer' = TRUE
             /\ runResult' = [ op |-> "updateRun", value |-> final ]
  /\ UNCHANGED << loaded, runFileVars, runLog, created >>
  /\ UNCHANGED notRuns

\* Mutant of loadRunStoreResult: the backup is not consulted.
loadRunStoreResult_NoBackup(primary, backup) ==
  IF primary.ok THEN [ runs |-> primary.runs, log |-> "" ]
  ELSE [ runs |-> << >>, log |-> "" ]

\* loadRunStore's try/catch: the store it settles on and what it warns.
loadRunStoreResult(primary, backup) ==
  IF primary.ok THEN [ runs |-> primary.runs, log |-> "" ]
  ELSE IF primary.code = "ENOENT" THEN [ runs |-> << >>, log |-> "" ]
  ELSE IF backup.ok
       THEN [ runs |-> backup.runs, log |-> "Recovered from backup runs.json.bak" ]
       ELSE [ runs |-> << >>, log |-> "Backup also unavailable" ]

\* loadRunStore(): cleanOrphanTmp, the reads, trimStoreRuns.
loadRunStore ==
  LET result == loadRunStoreResult(readStoreFile(runsFile), readStoreFile(runsBackup))
  IN /\ runsTmp' = Enoent
     /\ runStore' = trimStoreRuns(result.runs)
     /\ loaded' = TRUE
     /\ runLog' = result.log
     /\ runResult' = [ op |-> "loadRunStore", value |-> Null ]
     /\ created' = [ i \in 1..Len(result.runs) |-> result.runs[i].runId ]
     /\ UNCHANGED << persistTimer, writing, runsFile, runsBackup >>
     /\ UNCHANGED notRuns

\* The persist timer fires: writeStoreNow() trims, serializes the store and
\* writes runs.json.tmp.
writeTmp ==
  /\ persistTimer
  /\ writing = "idle"
  /\ persistTimer' = FALSE
  /\ runStore' = trimStoreRuns(runStore)
  /\ runsTmp' = Snapshot(runStore')
  /\ writing' = "tmp written"
  /\ UNCHANGED << loaded, runsFile, runsBackup, runResult, runLog, created >>
  /\ UNCHANGED notRuns

\* writeStoreNow(), continued: fs.copyFile(target, backup); ENOENT is ignored.
copyBackup ==
  /\ writing = "tmp written"
  /\ runsBackup' = IF runsFile = Enoent THEN runsBackup ELSE runsFile
  /\ writing' = "backed up"
  /\ UNCHANGED << runStore, loaded, persistTimer, runsFile, runsTmp, runResult, runLog,
                  created >>
  /\ UNCHANGED notRuns

\* writeStoreNow(), continued: fs.rename(tmp, target), which fails when the
\* tmp file is gone.
renameTmp ==
  /\ writing = "backed up"
  /\ IF runsTmp = Enoent THEN UNCHANGED << runsFile, runsTmp >>
     ELSE runsFile' = runsTmp /\ runsTmp' = Enoent
  /\ writing' = "idle"
  /\ UNCHANGED << runStore, loaded, persistTimer, runsBackup, runResult, runLog, created >>
  /\ UNCHANGED notRuns

\* The daemon stops, at any point of a write, and a new process starts.
restart ==
  /\ runStore' = << >>
  /\ loaded' = FALSE
  /\ persistTimer' = FALSE
  /\ writing' = "idle"
  /\ runResult' = [ op |-> "", value |-> Null ]
  /\ runLog' = ""
  /\ created' = << >>
  /\ UNCHANGED << runsFile, runsBackup, runsTmp >>
  /\ UNCHANGED notRuns

\* Something else replaces a file with content that does not parse.
damageFile(name) ==
  /\ name \in { "runs.json", "runs.json.bak" }
  /\ runsFile' = IF name = "runs.json" THEN Malformed ELSE runsFile
  /\ runsBackup' = IF name = "runs.json.bak" THEN Malformed ELSE runsBackup
  /\ UNCHANGED << runStore, loaded, persistTimer, writing, runsTmp, runResult, runLog,
                  created >>
  /\ UNCHANGED notRuns

\* What callers pass.
TimestampInputs == { Absent, 0 }
CreateInputs ==
  [ runId : { "r1" }, state : { Undefined, "running", "done" },
    startedAt : TimestampInputs, finishedAt : TimestampInputs ]
\* Patches of the state alone, and patches that carry timestamps (undefined
\* or a time).
Patches ==
  [ state : { NoStateKey, "bogus", "queued", "running", "retrying", "done", "failed" },
    startedAt : { NoKey }, finishedAt : { NoKey } ]
    \cup [ state : { NoStateKey, "running", "done" },
           startedAt : { NoKey, Absent, 1 }, finishedAt : { NoKey, Absent, 1 } ]
\* updateRun's calls: every patch on the id of a run, one on an id of none.
UpdateCalls ==
  ({ "r1" } \X Patches)
    \cup { << "unknown", [ state |-> "done", startedAt |-> NoKey, finishedAt |-> NoKey ] >> }
\* What the callers of the persisted store pass.
PlainInputs ==
  [ runId : RunIds, state : { Undefined, "done" }, startedAt : { Absent },
    finishedAt : { Absent } ]

\* The store in memory.
NextRuns ==
  \/ loadRunStore
  \/ \E input \in CreateInputs : createRun(input)
  \/ \E call \in UpdateCalls : updateRun(call[1], call[2])
  \/ Tick

\* The store and its files.
NextRunFiles ==
  \/ loadRunStore
  \/ \E input \in PlainInputs : createRun(input)
  \/ writeTmp
  \/ copyBackup
  \/ renameTmp
  \/ restart
  \/ \E name \in { "runs.json", "runs.json.bak" } : damageFile(name)

\* ==================================================================
\* approval store (src/src/run-store.mjs, lines 458-665)

\* Scaled: at most 2 approvals are kept (500 in the code), and a resolved
\* one is kept for 1 tick (24 h).  A request lives 1 tick when the caller
\* gives no expiresAt (120 s).
MAX_APPROVALS == 2
RESOLVED_RETENTION_MS == 1
APPROVAL_TTL_MS == 1

VALID_STATUSES == { "pending", "approved", "rejected", "expired" }

ApprovalIds == { "a1" }

\* approvals.json: ENOENT, or a snapshot { approvals }.
ApprovalsEnoent == [ kind |-> "ENOENT", approvals |-> << >> ]
ApprovalsSnapshot(approvals) == [ kind |-> "json", approvals |-> approvals ]

\* null, as a value of the type of an approval record.
NoApproval == [ requestId |-> "", status |-> "null", createdAt |-> Absent,
                expiresAt |-> Absent, resolvedAt |-> Absent, resolvedBy |-> Undefined ]

ApprovalInit ==
  /\ approvalStore = << >>
  /\ approvalsLoaded = FALSE
  /\ approvalPersistTimer = FALSE
  /\ approvalsFile = ApprovalsEnoent
  /\ approvalResult = [ op |-> "", current |-> NoApproval, value |-> NoApproval ]

\* pruneExpired(), on the list `approvals`
pruneExpired(approvals) ==
  LET cutoff == now - RESOLVED_RETENTION_MS
      kept == SelectSeq(approvals,
                LAMBDA a : a.status = "pending" \/ OrElse(a.resolvedAt, a.createdAt) > cutoff)
  IN  IF Len(kept) > MAX_APPROVALS
        THEN SubSeq(kept, Len(kept) - MAX_APPROVALS + 1, Len(kept))
        ELSE kept

\* loadApprovalStore(): the list it leaves in `store.approvals`
loadedApprovals == IF approvalsFile.kind = "json" THEN approvalsFile.approvals ELSE << >>

\* ensureLoaded(): the list the caller works on
ensureLoadedApprovals == IF approvalsLoaded THEN approvalStore ELSE loadedApprovals

loadApprovalStore ==
  /\ approvalStore' = loadedApprovals
  /\ approvalsLoaded' = TRUE
  /\ approvalResult' = [ op |-> "loadApprovalStore", current |-> NoApproval,
                         value |-> NoApproval ]
  /\ UNCHANGED << approvalPersistTimer, approvalsFile >>
  /\ UNCHANGED notApprovals

\* createApproval(input)
createApproval(input) ==
  LET approvals == ensureLoadedApprovals
      record == [ requestId |-> input.requestId,
                  status |-> "pending",
                  createdAt |-> now,
                  expiresAt |-> IF input.expiresAt = Absent \/ input.expiresAt = 0
                                  THEN now + APPROVAL_TTL_MS ELSE input.expiresAt,
                  resolvedAt |-> Absent,
                  resolvedBy |-> Undefined ]
  IN  /\ approvalStore' = pruneExpired(Append(approvals, record))
      /\ approvalsLoaded' = TRUE
      /\ approvalPersistTimer' = TRUE
      /\ approvalResult' = [ op |-> "createApproval", current |-> NoApproval,
                             value |-> record ]
      /\ UNCHANGED approvalsFile
      /\ UNCHANGED notApprovals

\* findIndex((a) => a.requestId === id): 0 stands for -1
findApproval(approvals, id) ==
  LET hits == { i \in 1..Len(approvals) : approvals[i].requestId = id }
  IN  IF hits = {} THEN 0 ELSE CHOOSE i \in hits : \A j \in hits : i <= j

\* resolveApproval: the record that replaces a pending `current`
resolvedRecord_AnyStatus(current, resolution, resolvedBy) ==
  [ current EXCEPT !.status = IF resolution \in VALID_STATUSES THEN resolution
                               ELSE "rejected",
                   !.resolvedAt = now,
                   !.resolvedBy = IF resolvedBy = Undefined \/ resolvedBy = ""
                                    THEN current.resolvedBy ELSE resolvedBy ]

\* resolveApproval: the record left in the store for `current`
resolvedRecord(current, resolution, resolvedBy) ==
  IF current.status # "pending" THEN current
  ELSE [ current EXCEPT !.status = IF resolution \in VALID_STATUSES THEN resolution
                                    ELSE "rejected",
                        !.resolvedAt = now,
                        !.resolvedBy = IF resolvedBy = Undefined \/ resolvedBy = ""
                                         THEN current.resolvedBy ELSE resolvedBy ]

\* resolveApproval(requestId, resolution, resolvedBy)
resolveApproval(requestId, resolution, resolvedBy) ==
  LET approvals == ensureLoadedApprovals
      index == findApproval(approvals, requestId)
  IN  /\ approvalsLoaded' = TRUE
      /\ UNCHANGED approvalsFile
      /\ UNCHANGED notApprovals
      /\ IF requestId = "" \/ index = 0
           THEN /\ approvalStore' = approvals
                /\ approvalResult' = [ op |-> "resolveApproval", current |-> NoApproval,
                                       value |-> NoApproval ]
                /\ UNCHANGED approvalPersistTimer
           ELSE LET current == approvals[index]
                    next == resolvedRecord(current, resolution, resolvedBy)
                IN  /\ approvalStore' = [ approvals EXCEPT ![index] = next ]
                    /\ approvalResult' = [ op |-> "resolveApproval", current |-> current,
                                           value |-> next ]
                    /\ approvalPersistTimer' =
                         IF current.status # "pending" THEN approvalPersistTimer ELSE TRUE

\* expireOverdueApprovals()
expireOverdueApprovals ==
  LET approvals == ensureLoadedApprovals
      cutoff == now
      overdue(a) == a.status = "pending" /\ a.expiresAt <= cutoff
      changed == \E i \in 1..Len(approvals) : overdue(approvals[i])
  IN  /\ approvalStore' = [ i \in 1..Len(approvals) |->
                              IF overdue(approvals[i])
                                THEN [ approvals[i] EXCEPT !.status = "expired",
                                                           !.resolvedAt = cutoff ]
                                ELSE approvals[i] ]
      /\ approvalsLoaded' = TRUE
      /\ approvalPersistTimer' = IF changed THEN TRUE ELSE approvalPersistTimer
      /\ approvalResult' = [ op |-> "expireOverdueApprovals", current |-> NoApproval,
                             value |-> NoApproval ]
      /\ UNCHANGED approvalsFile
      /\ UNCHANGED notApprovals

\* The persist timer fires: writeStoreNow() prunes, then replaces approvals.json.
writeApprovalStoreNow ==
  /\ approvalPersistTimer
  /\ approvalPersistTimer' = FALSE
  /\ approvalStore' = pruneExpired(approvalStore)
  /\ approvalsFile' = ApprovalsSnapshot(pruneExpired(approvalStore))
  /\ UNCHANGED << approvalsLoaded, approvalResult >>
  /\ UNCHANGED notApprovals

\* server.mjs passes String(body.resolution || 'rejected') and
\* body.resolvedBy || undefined.
Resolutions == { "approved", "rejected", "expired", "pending", "allow" }
ResolveIds == { "", "a1", "unknown" }
ResolvedBys == { Undefined, "user" }
ApprovalInputs == [ requestId : ApprovalIds, expiresAt : { Absent } ]

NextApprovals ==
  \/ loadApprovalStore
  \/ \E input \in ApprovalInputs : createApproval(input)
  \/ \E id \in ResolveIds, resolution \in Resolutions, resolvedBy \in ResolvedBys :
       resolveApproval(id, resolution, resolvedBy)
  \/ expireOverdueApprovals
  \/ Tick

\* The store with its file: the debounced write, and calls that arm it.
NextApprovalFiles ==
  \/ loadApprovalStore
  \/ \E input \in ApprovalInputs : createApproval(input)
  \/ resolveApproval("a1", "approved", Undefined)
  \/ writeApprovalStoreNow
  \/ Tick

\* ==================================================================
\* tool-server supervisor (src/src/run-store.mjs, lines 927-1195: McpManager;
\* src/src/mcp-transport.mjs: StdioTransport)

\* Number of startServer, restartServer and callTool calls in a run.
MaxCalls == 2

ConfiguredServers == { "srv" }
ServerNames == { "srv", "nope" }
ToolNames == { "echo", "missing" }

\* entry.transport = null
NoProc == 0

NoResult == [ ok |-> FALSE, isError |-> FALSE, error |-> "" ]

StoppedEntry == [ status |-> "stopped", transport |-> NoProc, tools |-> {}, error |-> "null" ]

McpInit ==
  /\ servers = [ n \in ConfiguredServers |-> StoppedEntry ]
  /\ startingLocks = {}
  /\ procs = << >>
  /\ calls = << >>
  /\ stopReturned = {}

\* The requests a call can be waiting on, and the positions of a call that returned.
RequestPcs == { "initialize", "tools/list", "tools/call" }
SettledPcs == { "resolved", "rejected" }

\* The calls whose awaited promise is settled: their continuations are
\* microtasks, which run before the next event is handled.
Queued == { c \in DOMAIN calls : calls[c].pc \notin SettledPcs /\ calls[c].settle # "none" }

\* isStarting: `this.#startingLocks.has(name)`, without the lock
isStarting_NoLock(name) == FALSE

\* `this.#startingLocks.has(name)`
isStarting(name) == name \in startingLocks

\* StdioTransport.close() on the transport of child p: the children after it
closeTransport(ps, p) ==
  IF p = NoProc THEN ps
  ELSE IF ps[p].transport # "open" THEN ps
  ELSE [ ps EXCEPT ![p].transport = "closed", ![p].signal = "SIGTERM" ]

\* close(), #onClose() and #onError() reject every pending request of the transport
rejectPending(cs, ps, p, why) ==
  IF p = NoProc THEN cs
  ELSE IF ps[p].transport # "open" THEN cs
  ELSE [ c \in DOMAIN cs |->
           IF cs[c].proc = p /\ cs[c].pc \in RequestPcs /\ cs[c].settle = "none"
             THEN [ cs[c] EXCEPT !.settle = why ]
             ELSE cs[c] ]

\* proc.on('close'), without clearing the tools
onProcClose_KeepTools(entry) ==
  IF entry.status # "stopped"
    THEN [ entry EXCEPT !.status = "disconnected", !.error = "Process exited" ]
    ELSE entry

\* proc.on('close', ...) registered by startServer
onProcClose(entry) ==
  IF entry.status # "stopped"
    THEN [ entry EXCEPT !.status = "disconnected", !.tools = {}, !.error = "Process exited" ]
    ELSE entry

\* proc.on('error', ...) registered by startServer
onProcError(entry) ==
  IF entry.status # "stopped"
    THEN [ entry EXCEPT !.status = "error", !.tools = {}, !.error = "Process error" ]
    ELSE entry

\* callTool: what it resolves with once `transport.request` settled; the
\* catch turns every rejection, and the TypeError on a null result, into
\* { ok: false, error }
callToolResult_Uncaught(settle) ==
  IF settle = "result" THEN [ ok |-> TRUE, isError |-> FALSE, error |-> "" ]
  ELSE IF settle = "result: isError" THEN [ ok |-> FALSE, isError |-> TRUE, error |-> "" ]
  ELSE [ ok |-> FALSE, isError |-> FALSE, error |-> "(uncaught)" ]

callToolResult(settle) ==
  IF settle = "result" THEN [ ok |-> TRUE, isError |-> FALSE, error |-> "" ]
  ELSE IF settle = "result: isError" THEN [ ok |-> FALSE, isError |-> TRUE, error |-> "" ]
  ELSE [ ok |-> FALSE, isError |-> FALSE, error |-> settle ]

\* startServer from `entry.status = 'starting'` to the spawn, for call c of cs
spawnChild(c, cs) ==
  LET name == cs[c].name
  IN  /\ servers' = [ servers EXCEPT ![name].status = "starting", ![name].error = "null",
                                      ![name].tools = {} ]
      /\ procs' = Append(procs, [ name |-> name, state |-> "spawning", handlers |-> FALSE,
                                  transport |-> "none", signal |-> "none" ])
      /\ calls' = [ cs EXCEPT ![c].pc = "spawn", ![c].proc = Len(procs) + 1,
                              ![c].settle = "none" ]

\* startServer from its first line to its first await, for call c of cs
enterStart(c, cs) ==
  LET name == cs[c].name
  IN  IF name \notin ConfiguredServers
        THEN /\ calls' = [ cs EXCEPT ![c].pc = "rejected", ![c].settle = "none",
                                     ![c].result.error = "Unknown MCP server" ]
             /\ UNCHANGED << servers, startingLocks, procs >>
      ELSE IF isStarting(name)
        THEN /\ calls' = [ cs EXCEPT ![c].pc = "rejected", ![c].settle = "none",
                                     ![c].result.error = "already starting" ]
             /\ UNCHANGED << servers, startingLocks, procs >>
      ELSE LET t == servers[name].transport
               open == IF t = NoProc THEN FALSE ELSE procs[t].transport = "open"
           IN  /\ startingLocks' = startingLocks \cup { name }
               /\ IF open
                    THEN \* await this.stopServer(name)
                         /\ servers' = [ servers EXCEPT ![name] = StoppedEntry ]
                         /\ procs' = closeTransport(procs, t)
                         /\ calls' = [ rejectPending(cs, procs, t, "Transport closed")
                                         EXCEPT ![c].pc = "stopServer",
                                                ![c].settle = "returned" ]
                    ELSE spawnChild(c, cs)

\* startServer(name)
startServer(name) ==
  /\ Queued = {}
  /\ Len(calls) < MaxCalls
  /\ enterStart(Len(calls) + 1,
                Append(calls, [ op |-> "startServer", name |-> name, tool |-> "",
                                pc |-> "called", proc |-> NoProc, settle |-> "none",
                                result |-> NoResult ]))
  /\ stopReturned' = stopReturned \ { name }
  /\ UNCHANGED notMcp

\* stopServer(name)
stopServer(name) ==
  /\ Queued = {}
  /\ IF name \in ConfiguredServers
       THEN LET t == servers[name].transport
            IN  /\ servers' = [ servers EXCEPT ![name] = StoppedEntry ]
                /\ procs' = closeTransport(procs, t)
                /\ calls' = rejectPending(calls, procs, t, "Transport closed")
       ELSE UNCHANGED << servers, procs, calls >>
  /\ UNCHANGED startingLocks
  /\ stopReturned' = stopReturned \cup ({ name } \cap ConfiguredServers)
  /\ UNCHANGED notMcp

\* restartServer(name), to its await of stopServer
restartServer(name) ==
  /\ Queued = {}
  /\ Len(calls) < MaxCalls
  /\ LET call == [ op |-> "restartServer", name |-> name, tool |-> "", pc |-> "restart",
                   proc |-> NoProc, settle |-> "returned", result |-> NoResult ]
     IN  IF name \in ConfiguredServers
           THEN LET t == servers[name].transport
                IN  /\ servers' = [ servers EXCEPT ![name] = StoppedEntry ]
                    /\ procs' = closeTransport(procs, t)
                    /\ calls' = Append(rejectPending(calls, procs, t, "Transport closed"),
                                       call)
           ELSE /\ calls' = Append(calls, call)
                /\ UNCHANGED << servers, procs >>
  /\ UNCHANGED startingLocks
  /\ stopReturned' = stopReturned \ { name }
  /\ UNCHANGED notMcp

\* startServer: catch (err) and finally
startFailed(c) ==
  LET name == calls[c].name
      t == servers[name].transport
  IN  /\ servers' = [ servers EXCEPT ![name].status = "error", ![name].tools = {},
                                      ![name].error = calls[c].settle,
                                      ![name].transport = NoProc ]
      /\ procs' = closeTransport(procs, t)
      /\ calls' = [ rejectPending(calls, procs, t, "Transport closed")
                      EXCEPT ![c].pc = "rejected", ![c].settle = "none",
                             ![c].result.error = calls[c].settle ]
      /\ startingLocks' = startingLocks \ { name }

\* startServer: `entry.status = 'connected'`, return and finally
startConnected(c, tools) ==
  LET name == calls[c].name
  IN  /\ servers' = [ servers EXCEPT ![name].status = "connected", ![name].tools = tools ]
      /\ calls' = [ calls EXCEPT ![c].pc = "resolved", ![c].settle = "none",
                                 ![c].result.ok = TRUE ]
      /\ startingLocks' = startingLocks \ { name }
      /\ UNCHANGED procs

\* The continuation of call c after the promise it awaited settled.
continue(c) ==
  /\ c \in Queued
  /\ LET call == calls[c]
         name == call.name
         p == call.proc
     IN  CASE call.pc = "restart" -> enterStart(c, calls)
           [] call.pc = "stopServer" -> spawnChild(c, calls) /\ UNCHANGED startingLocks
           [] call.pc = "spawn" ->
                IF call.settle = "spawn"
                  THEN \* the close and error handlers, the transport, initialize
                       /\ procs' = [ procs EXCEPT ![p].handlers = TRUE,
                                                  ![p].transport = "open" ]
                       /\ servers' = [ servers EXCEPT ![name].transport = p ]
                       /\ calls' = [ calls EXCEPT ![c].pc = "initialize",
                                                  ![c].settle = "none" ]
                       /\ UNCHANGED startingLocks
                  ELSE startFailed(c)
           [] call.pc = "initialize" ->
                IF call.settle = "capabilities: tools"
                  THEN /\ calls' = [ calls EXCEPT ![c].pc = "tools/list",
                                       ![c].settle = IF procs[p].transport = "open"
                                                       THEN "none"
                                                       ELSE "Transport is closed" ]
                       /\ UNCHANGED << servers, procs, startingLocks >>
                ELSE IF call.settle = "capabilities: none"
                  THEN startConnected(c, servers[name].tools)
                ELSE startFailed(c)
           [] call.pc = "tools/list" ->
                startConnected(c, IF call.settle = "tools: echo" THEN { "echo" }
                                  ELSE IF call.settle = "tools: none" THEN {}
                                  ELSE servers[name].tools)
           [] call.pc = "tools/call" ->
                /\ calls' = [ calls EXCEPT ![c].pc = "resolved", ![c].settle = "none",
                                           ![c].result = callToolResult(call.settle) ]
                /\ UNCHANGED << servers, procs, startingLocks >>
  /\ UNCHANGED stopReturned
  /\ UNCHANGED notMcp

\* callTool(serverName, toolName), to its await of the request
callTool(serverName, toolName) ==
  /\ Queued = {}
  /\ Len(calls) < MaxCalls
  /\ LET call == [ op |-> "callTool", name |-> serverName, tool |-> toolName,
                   pc |-> "resolved", proc |-> NoProc, settle |-> "none",
                   result |-> NoResult ]
         refused(why) == [ call EXCEPT !.result.error = why ]
     IN  IF serverName \notin ConfiguredServers
           THEN calls' = Append(calls, refused("Unknown MCP server"))
         ELSE LET entry == servers[serverName]
                  closed == IF entry.transport = NoProc THEN TRUE
                            ELSE procs[entry.transport].transport # "open"
              IN  IF entry.status # "connected" \/ closed
                    THEN calls' = Append(calls, refused("not connected"))
                  ELSE IF toolName \notin entry.tools
                    THEN calls' = Append(calls, refused("Tool not found"))
                  ELSE calls' = Append(calls, [ call EXCEPT !.pc = "tools/call",
                                                            !.proc = entry.transport ])
  /\ UNCHANGED << servers, startingLocks, procs >>
  /\ UNCHANGED stopReturned
  /\ UNCHANGED notMcp

\* The child's 'spawn' event.
procSpawn(p) ==
  /\ Queued = {}
  /\ procs[p].state = "spawning"
  /\ procs' = [ procs EXCEPT ![p].state = "running" ]
  /\ calls' = [ c \in DOMAIN calls |->
                  IF calls[c].pc = "spawn" /\ calls[c].proc = p
                    THEN [ calls[c] EXCEPT !.settle = "spawn" ] ELSE calls[c] ]
  /\ UNCHANGED << servers, startingLocks >>
  /\ UNCHANGED stopReturned
  /\ UNCHANGED notMcp

\* The child's 'error' event in place of 'spawn' (ENOENT, EACCES).
procSpawnError(p) ==
  /\ Queued = {}
  /\ procs[p].state = "spawning"
  /\ procs' = [ procs EXCEPT ![p].state = "failed" ]
  /\ calls' = [ c \in DOMAIN calls |->
                  IF calls[c].pc = "spawn" /\ calls[c].proc = p
                    THEN [ calls[c] EXCEPT !.settle = "spawn ENOENT" ] ELSE calls[c] ]
  /\ UNCHANGED << servers, startingLocks >>
  /\ UNCHANGED stopReturned
  /\ UNCHANGED notMcp

\* The child's 'close' event: the handler of startServer, then #onClose.
procClose(p) ==
  /\ Queued = {}
  /\ procs[p].state = "running"
  /\ servers' = IF procs[p].handlers
                  THEN [ servers EXCEPT ![procs[p].name] = onProcClose(@) ]
                  ELSE servers
  /\ procs' = [ procs EXCEPT ![p].state = "exited",
                             ![p].transport = IF @ = "open" THEN "closed" ELSE @ ]
  /\ calls' = rejectPending(calls, procs, p, "MCP server process exited")
  /\ UNCHANGED startingLocks
  /\ UNCHANGED stopReturned
  /\ UNCHANGED notMcp

\* An 'error' event of a spawned child: the handler of startServer, then #onError.
procError(p) ==
  /\ Queued = {}
  /\ procs[p].state = "running"
  /\ procs[p].handlers
  /\ servers' = [ servers EXCEPT ![procs[p].name] = onProcError(@) ]
  /\ procs' = [ procs EXCEPT ![p].transport = IF @ = "open" THEN "closed" ELSE @ ]
  /\ calls' = rejectPending(calls, procs, p, "MCP server process error")
  /\ UNCHANGED startingLocks
  /\ UNCHANGED stopReturned
  /\ UNCHANGED notMcp

\* What a tool server can answer to each request.
Responses(method) ==
  IF method = "initialize" THEN { "capabilities: tools", "capabilities: none", "rpc error" }
  ELSE IF method = "tools/list" THEN { "tools: echo", "tools: none", "rpc error" }
  ELSE { "result", "result: isError", "result: null", "rpc error" }

\* #handleMessage: the response to the request call c waits on
respond(c, payload) ==
  /\ Queued = {}
  /\ calls[c].pc \in RequestPcs
  /\ calls[c].settle = "none"
  /\ procs[calls[c].proc].state = "running"
  /\ procs[calls[c].proc].transport = "open"
  /\ payload \in Responses(calls[c].pc)
  /\ calls' = [ calls EXCEPT ![c].settle = payload ]
  /\ UNCHANGED << servers, startingLocks, procs >>
  /\ UNCHANGED stopReturned
  /\ UNCHANGED notMcp

\* The 30 s timer of the request call c waits on
requestTimeout(c) ==
  /\ Queued = {}
  /\ calls[c].pc \in RequestPcs
  /\ calls[c].settle = "none"
  /\ calls' = [ calls EXCEPT ![c].settle = "timed out" ]
  /\ UNCHANGED << servers, startingLocks, procs >>
  /\ UNCHANGED stopReturned
  /\ UNCHANGED notMcp

AllResponses == Responses("initialize") \cup Responses("tools/list") \cup Responses("tools/call")

NextMcp ==
  \/ \E name \in ServerNames : startServer(name)
  \/ \E name \in ServerNames : stopServer(name)
  \/ \E name \in ServerNames : restartServer(name)
  \/ \E name \in ServerNames, tool \in ToolNames : callTool(name, tool)
  \/ \E c \in DOMAIN calls : continue(c)
  \/ \E p \in DOMAIN procs : procSpawn(p)
  \/ \E p \in DOMAIN procs : procSpawnError(p)
  \/ \E p \in DOMAIN procs : procClose(p)
  \/ \E p \in DOMAIN procs : procError(p)
  \/ \E c \in DOMAIN calls, payload \in AllResponses : respond(c, payload)
  \/ \E c \in DOMAIN calls : requestTimeout(c)

\* ==================================================================
\* one-shot commands (src/src/runtime.mjs, lines 57-60 and 273-331)

\* Number of characters a child writes to one stream in a run.
MaxOutput == 4

\* Scaled: 3 characters of each stream are kept (200,000 in the code).
MAX_OUTPUT_CHARS == 3

\* Characters are integers: 0 is white space (the "\n" of the error path
\* included), the k-th character a child writes to a stream is k or white
\* space, and ErrorMessage is the text of error.message.
WhiteSpace == 0
ErrorMessage == << -1 >>

\* trimOutput(text)
trimOutput(text) ==
  IF Len(text) <= MAX_OUTPUT_CHARS THEN text
  ELSE SubSeq(text, Len(text) - MAX_OUTPUT_CHARS + 1, Len(text))

\* String.prototype.trim()
RECURSIVE trim(_)
trim(text) ==
  IF text = << >> THEN text
  ELSE IF Head(text) = WhiteSpace THEN trim(Tail(text))
  ELSE IF text[Len(text)] = WhiteSpace THEN trim(SubSeq(text, 1, Len(text) - 1))
  ELSE text

NoExecResult == [ ok |-> FALSE, exitCode |-> NoCode, stdout |-> << >>, stderr |-> << >>,
                  timedOut |-> FALSE ]

ExecInit ==
  /\ exec = [ pc |-> "idle", child |-> "none", handlesTerm |-> TRUE, killed |-> FALSE,
              stdout |-> << >>, stderr |-> << >>, timedOut |-> FALSE,
              timer |-> "none", killTimer |-> "none", result |-> NoExecResult ]
  /\ execOut = [ stdout |-> << >>, stderr |-> << >> ]

\* runCommand({ command, cwd, timeoutMs, env }): the executor of the promise.
\* The command decides whether the child dies on SIGTERM; a spawn that fails
\* leaves a child whose 'error' event is due.
runCommand(spawned, handlesTerm) ==
  /\ exec.pc = "idle"
  /\ exec' = [ exec EXCEPT !.pc = "running",
                           !.child = IF spawned THEN "running" ELSE "spawn failed",
                           !.handlesTerm = handlesTerm,
                           !.timer = "armed" ]
  /\ UNCHANGED execOut
  /\ UNCHANGED notExec

\* What the child can write next to a stream it has written `written` to.
Chunks(written) == { << Len(written) + 1 >>, << WhiteSpace >> }

\* child.stdout.on('data')
stdoutData(chunk) ==
  /\ exec.child \in { "running", "terminating" }
  /\ Len(execOut.stdout) < MaxOutput
  /\ exec' = [ exec EXCEPT !.stdout = trimOutput(exec.stdout \o chunk) ]
  /\ execOut' = [ execOut EXCEPT !.stdout = @ \o chunk ]
  /\ UNCHANGED notExec

\* child.stderr.on('data')
stderrData(chunk) ==
  /\ exec.child \in { "running", "terminating" }
  /\ Len(execOut.stderr) < MaxOutput
  /\ exec' = [ exec EXCEPT !.stderr = trimOutput(exec.stderr \o chunk) ]
  /\ execOut' = [ execOut EXCEPT !.stderr = @ \o chunk ]
  /\ UNCHANGED notExec

\* resolve(value): the first call settles the promise
resolve(e, value) ==
  IF e.pc = "running" THEN [ e EXCEPT !.pc = "resolved", !.result = value ] ELSE e

clearTimer(e) == [ e EXCEPT !.timer = IF @ = "armed" THEN "cleared" ELSE @ ]

\* child.on('error')
onExecError(e) ==
  resolve(clearTimer(e),
          [ ok |-> FALSE, exitCode |-> -1, stdout |-> e.stdout,
            stderr |-> trim(e.stderr \o << WhiteSpace >> \o ErrorMessage),
            timedOut |-> e.timedOut ])

\* child.on('close')
onExecClose(e, code) ==
  resolve(clearTimer(e),
          [ ok |-> ~e.timedOut /\ code = 0,
            exitCode |-> IF code = NoCode THEN -1 ELSE code,
            stdout |-> e.stdout, stderr |-> e.stderr, timedOut |-> e.timedOut ])

\* The 'error' event of a spawn that failed.
execSpawnError ==
  /\ exec.child = "spawn failed"
  /\ exec' = [ onExecError(exec) EXCEPT !.child = "failed" ]
  /\ execOut' = [ execOut EXCEPT !.stderr = @ \o << WhiteSpace >> \o ErrorMessage ]
  /\ UNCHANGED notExec

\* The timer of timeoutMs fires: timedOut, child.kill('SIGTERM'), and the
\* 3 s timer.  kill() sets child.killed when the signal was delivered, and
\* emits 'error' when the system refuses it (EPERM).
execTimeout(delivered) ==
  /\ exec.timer = "armed"
  /\ exec.child = "running"
  /\ LET e == [ exec EXCEPT !.timer = "fired", !.timedOut = TRUE, !.killTimer = "armed" ]
     IN  IF delivered
           THEN /\ exec' = [ e EXCEPT !.killed = TRUE,
                                      !.child = IF e.handlesTerm THEN "terminating" ELSE @ ]
                /\ UNCHANGED execOut
           ELSE /\ exec' = onExecError(e)
                /\ execOut' = [ execOut EXCEPT
                                  !.stderr = @ \o << WhiteSpace >> \o ErrorMessage ]
  /\ UNCHANGED notExec

\* if (!child.killed) child.kill('SIGKILL')
sendsKill(e) == ~e.killed /\ e.child = "running"

\* The 3 s timer fires.
execKillTimer ==
  /\ exec.killTimer = "armed"
  /\ exec' = IF sendsKill(exec)
               THEN [ exec EXCEPT !.killTimer = "fired", !.killed = TRUE,
                                  !.child = "terminating" ]
               ELSE [ exec EXCEPT !.killTimer = "fired" ]
  /\ UNCHANGED execOut
  /\ UNCHANGED notExec

\* The child ends by itself, with an exit code.
execChildExit(code) ==
  /\ exec.child = "running"
  /\ exec' = [ onExecClose(exec, code) EXCEPT !.child = "closed" ]
  /\ UNCHANGED execOut
  /\ UNCHANGED notExec

\* The child dies of the signal it was sent: 'close' with code null.
execChildKilled ==
  /\ exec.child = "terminating"
  /\ exec' = [ onExecClose(exec, NoCode) EXCEPT !.child = "closed" ]
  /\ UNCHANGED execOut
  /\ UNCHANGED notExec

NextExec ==
  \/ \E spawned \in BOOLEAN, handlesTerm \in BOOLEAN : runCommand(spawned, handlesTerm)
  \/ \E chunk \in Chunks(execOut.stdout) : stdoutData(chunk)
  \/ \E chunk \in Chunks(execOut.stderr) : stderrData(chunk)
  \/ execSpawnError
  \/ \E delivered \in BOOLEAN : execTimeout(delivered)
  \/ execKillTimer
  \/ \E code \in { 0, 1 } : execChildExit(code)
  \/ execChildKilled

\* Timers fire, a due event is emitted, and a child that was sent a signal
\* it does not ignore dies; a child may run for ever.
ExecFairness ==
  /\ WF_vars(\E delivered \in BOOLEAN : execTimeout(delivered))
  /\ WF_vars(execKillTimer)
  /\ WF_vars(execSpawnError)
  /\ WF_vars(execChildKilled)

\* ==================================================================
\* permission policy (src/unnamed/part_003; src/src/runtime.mjs, lines
\* 129-265; src/src/server.mjs, lines 151-229 and 693-705; bin/cli.mjs,
\* lines 257-266)

\* Strings of this component are sequences of one-character strings, so
\* that trimming, searching, slicing and tokenizing are computed.  A path
\* that path.resolve returned is the sequence of its segments: << >> is "/".

startsWith(s, prefix) ==
  Len(s) >= Len(prefix) /\ SubSeq(s, 1, Len(prefix)) = prefix

endsWith(s, suffix) ==
  Len(s) >= Len(suffix) /\ SubSeq(s, Len(s) - Len(suffix) + 1, Len(s)) = suffix

includes(s, part) ==
  \E i \in 1..(Len(s) - Len(part) + 1) : SubSeq(s, i, i + Len(part) - 1) = part

\* s.slice(i) with i counted from 0
sliceFrom(s, i) == SubSeq(s, i + 1, Len(s))

\* s.indexOf(c), counted from 0; -1 when c is not in s
indexOf(s, c) ==
  IF \E i \in 1..Len(s) : s[i] = c
    THEN (CHOOSE i \in 1..Len(s) : s[i] = c /\ \A j \in 1..(i - 1) : s[j] # c) - 1
    ELSE -1

\* String.prototype.trim() on a string of characters
RECURSIVE trimString(_)
trimString(s) ==
  IF s = << >> THEN s
  ELSE IF Head(s) = " " THEN trimString(Tail(s))
  ELSE IF s[Len(s)] = " " THEN trimString(SubSeq(s, 1, Len(s) - 1))
  ELSE s

\* String.prototype.toLowerCase(); F and W are the capitals of the alphabet used
toLowerCase(s) ==
  [ i \in 1..Len(s) |-> IF s[i] = "F" THEN "f" ELSE IF s[i] = "W" THEN "w" ELSE s[i] ]

\* s.split('/')
RECURSIVE splitSlash(_)
splitSlash(s) ==
  LET i == indexOf(s, "/")
  IN  IF i < 0 THEN << s >>
      ELSE << SubSeq(s, 1, i) >> \o splitSlash(sliceFrom(s, i + 1))

\* POSIX path normalization of the segments `rest` on top of the path `done`
RECURSIVE normalizeSegments(_, _)
normalizeSegments(done, rest) ==
  IF rest = << >> THEN done
  ELSE LET h == Head(rest)
       IN  IF h = << >> \/ h = << "." >> THEN normalizeSegments(done, Tail(rest))
           ELSE IF h = << ".", "." >>
             THEN normalizeSegments(IF done = << >> THEN done
                                    ELSE SubSeq(done, 1, Len(done) - 1), Tail(rest))
           ELSE normalizeSegments(Append(done, h), Tail(rest))

\* path.resolve(base, s) for an absolute, normalized base
pathResolve(base, s) ==
  IF startsWith(s, << "/" >>) THEN normalizeSegments(<< >>, splitSlash(s))
  ELSE normalizeSegments(base, splitSlash(s))

\* The machine: the home directory, the directory the daemon runs in, the
\* directories that exist and the symbolic links.
HomeDir == << << "h" >> >>
ProcessCwd == << << "d" >> >>
ConfigDir == << << "h" >>, << ".", "t" >> >>
Dirs == { << >>, << << "w" >> >>, << << "w" >>, << "a" >> >>, << << "e" >> >>,
          << << "h" >> >>, << << "d" >> >>, ConfigDir }
LinkFrom == { << << "s" >> >>, << << "w" >>, << "l" >> >> }
LinkTo(p) == IF p = << << "s" >> >> THEN << << "w" >> >> ELSE << << "e" >> >>

\* fs.realpath(p) of a path whose target exists
RECURSIVE followLinks(_, _)
followLinks(done, rest) ==
  IF rest = << >> THEN done
  ELSE LET next == Append(done, Head(rest))
       IN  IF next \in LinkFrom THEN followLinks(LinkTo(next), Tail(rest))
           ELSE followLinks(next, Tail(rest))

\* fs.stat(p) succeeded and isDirectory()
isDirectory(p) == followLinks(<< >>, p) \in Dirs

\* try { fs.realpath(p) } catch { p }
realpathOr(p) == IF followLinks(<< >>, p) \in Dirs THEN followLinks(<< >>, p) ELSE p

\* isPathWithinRoots(targetPath, roots)
isPathWithinRoots(target, roots) ==
  \E i \in 1..Len(roots) :
    \/ target = roots[i]
    \/ /\ Len(target) > Len(roots[i])
       /\ SubSeq(target, 1, Len(roots[i])) = roots[i]
       /\ ~startsWith(target[Len(roots[i]) + 1], << ".", "." >>)

PERMISSION_MODE_WORKSPACE == "workspace"
PERMISSION_MODE_FULL == "full"

FullText == << "f", "u", "l", "l" >>
WorkspaceText == << "w", "o", "r", "k", "s", "p", "a", "c", "e" >>

\* Values of input.mode: a string, or a value of another type.
StringValue(text) == [ type |-> "string", text |-> text ]
OtherValue(type) == [ type |-> type, text |-> << >> ]

\* Array.from(new Set(list)): the first occurrence of each element
RECURSIVE dedupe(_)
dedupe(list) ==
  IF list = << >> THEN list
  ELSE LET front == dedupe(SubSeq(list, 1, Len(list) - 1))
           last == list[Len(list)]
       IN  IF \E i \in 1..Len(front) : front[i] = last THEN front ELSE Append(front, last)

\* normalizeWorkspaceRoots(rawRoots), for an array of strings
normalizeWorkspaceRoots(rawRoots) ==
  LET kept == SelectSeq(rawRoots, LAMBDA root : trimString(root) # << >>)
      resolved == [ i \in 1..Len(kept) |->
                      LET trimmed == trimString(kept[i])
                      IN  IF startsWith(trimmed, << "~", "/" >>)
                            THEN pathResolve(HomeDir, sliceFrom(trimmed, 2))
                            ELSE pathResolve(ProcessCwd, trimmed) ]
  IN  dedupe(resolved)

\* normalizePermissionPolicy: rawMode
rawModeOf(mode) ==
  IF mode.type = "string" THEN toLowerCase(trimString(mode.text)) ELSE FullText

PolicyError == [ mode |-> "error", workspaceRoots |-> << >> ]

\* normalizePermissionPolicy(input, { strict }); PolicyError when it throws
normalizePermissionPolicy(input, strict) ==
  LET rawMode == rawModeOf(input.mode)
      valid == rawMode \in { WorkspaceText, FullText }
      normalizedMode == IF rawMode = FullText THEN PERMISSION_MODE_FULL
                        ELSE PERMISSION_MODE_WORKSPACE
  IN  IF ~valid /\ strict THEN PolicyError
      ELSE [ mode |-> normalizedMode,
             workspaceRoots |-> IF normalizedMode = PERMISSION_MODE_WORKSPACE
                                  THEN normalizeWorkspaceRoots(input.workspaceRoots)
                                  ELSE << >> ]

\* ---- the command gate of POST /api/runtime/exec and .../session/start ----

\* The double quote and the backtick of a command
DoubleQuote == "dquote"
Backtick == "backtick"

\* The policy as getPermissionPolicy() hands it over: its mode and its
\* roots are strings again.
pathText(p) ==
  IF p = << >> THEN << "/" >>
  ELSE IF Len(p) = 1 THEN << "/" >> \o p[1]
  ELSE IF Len(p) = 2 THEN << "/" >> \o p[1] \o << "/" >> \o p[2]
  ELSE << "/" >> \o p[1] \o << "/" >> \o p[2] \o << "/" >> \o p[3]

getPermissionPolicy ==
  [ mode |-> StringValue(IF currentPermissionPolicy.mode = PERMISSION_MODE_FULL
                           THEN FullText ELSE WorkspaceText),
    workspaceRoots |-> [ i \in 1..Len(currentPermissionPolicy.workspaceRoots) |->
                           pathText(currentPermissionPolicy.workspaceRoots[i]) ] ]

\* resolveCwd(inputCwd, permissionPolicy): the cwd, or the error it throws
resolveCwd(inputCwd, policy) ==
  LET given == inputCwd.type = "string" /\ trimString(inputCwd.text) # << >>
      cwd == IF given THEN pathResolve(ProcessCwd, trimString(inputCwd.text))
             ELSE IF policy.mode = PERMISSION_MODE_WORKSPACE /\ policy.workspaceRoots # << >>
               THEN policy.workspaceRoots[1]
             ELSE IF isDirectory(ConfigDir) THEN ConfigDir ELSE ProcessCwd
      workspaceRoots == [ i \in 1..Len(policy.workspaceRoots) |->
                            realpathOr(policy.workspaceRoots[i]) ]
  IN  IF ~isDirectory(cwd) THEN [ error |-> "Error", cwd |-> cwd ]
      ELSE IF policy.mode = PERMISSION_MODE_WORKSPACE
              /\ ( policy.workspaceRoots = << >>
                   \/ ~isPathWithinRoots(realpathOr(cwd), workspaceRoots) )
        THEN [ error |-> "PermissionPolicyError", cwd |-> cwd ]
      ELSE [ error |-> "none", cwd |-> cwd ]

\* shellTokenize(command): the matches of /"[^"]*"|'[^']*'|\S+/g
RECURSIVE shellTokenize(_)
shellTokenize(s) ==
  IF s = << >> THEN << >>
  ELSE IF Head(s) = " " THEN shellTokenize(Tail(s))
  ELSE LET close == indexOf(Tail(s), Head(s))
           quoted == Head(s) \in { DoubleQuote, "'" } /\ close >= 0
           stop == indexOf(s, " ")
           n == IF quoted THEN close + 2 ELSE IF stop < 0 THEN Len(s) ELSE stop
       IN  << SubSeq(s, 1, n) >> \o shellTokenize(SubSeq(s, n + 1, Len(s)))

\* stripQuotes(token)
stripQuotes(token) ==
  IF \/ startsWith(token, << DoubleQuote >>) /\ endsWith(token, << DoubleQuote >>)
     \/ startsWith(token, << "'" >>) /\ endsWith(token, << "'" >>)
    THEN SubSeq(token, 2, Len(token) - 1)
    ELSE token

\* maybePathCandidates(token)
maybePathCandidates(token) ==
  LET clean == stripQuotes(token)
      eqIdx == indexOf(clean, "=")
  IN  IF clean = << >> THEN << >>
      ELSE IF includes(clean, << ":", "/", "/" >>) THEN << >>
      ELSE IF eqIdx > 0 /\ eqIdx < Len(clean) - 1
        THEN << sliceFrom(clean, eqIdx + 1), clean >>
      ELSE << clean >>

\* /^[A-Za-z]:[\\/]/ over the letters of the alphabet used
NonWordChars ==
  { " ", "/", ".", "-", "=", DoubleQuote, "'", ":", "~", "$", "(", ")", ";", "|", "&",
    Backtick, "{", "}", "<", ">", "\\" }

isDriveLetterPath(value) ==
  /\ Len(value) >= 3
  /\ value[1] \notin NonWordChars
  /\ value[2] = ":"
  /\ value[3] \in { "\\", "/" }

\* looksLikePath(value)
looksLikePath(value) ==
  IF value = << >> THEN FALSE
  ELSE IF startsWith(value, << "-" >>) THEN FALSE
  ELSE \/ value = << "." >> \/ value = << ".", "." >>
       \/ startsWith(value, << ".", "/" >>) \/ startsWith(value, << ".", ".", "/" >>)
       \/ startsWith(value, << "~", "/" >>)
       \/ startsWith(value, << "/" >>)
       \/ isDriveLetterPath(value)
       \/ includes(value, << "/" >>) \/ includes(value, << "\\" >>)

\* normalizeCandidateToAbsolute(candidate, cwd), for a candidate that looksLikePath
normalizeCandidateToAbsolute(candidate, cwd) ==
  IF startsWith(candidate, << "~", "/" >>) THEN pathResolve(HomeDir, sliceFrom(candidate, 2))
  ELSE IF startsWith(candidate, << "/" >>) \/ isDriveLetterPath(candidate)
    THEN pathResolve(ProcessCwd, candidate)
  ELSE pathResolve(cwd, candidate)

\* /\bword\b/i.test(command)
matchesWord(command, word) ==
  LET s == toLowerCase(command)
  IN  \E i \in 1..(Len(s) - Len(word) + 1) :
        /\ SubSeq(s, i, i + Len(word) - 1) = word
        /\ i = 1 \/ s[i - 1] \in NonWordChars
        /\ i + Len(word) - 1 = Len(s) \/ s[i + Len(word)] \in NonWordChars

\* /\brm\s+-rf\s+\/(?![\w.-])/i.test(command)
matchesRootDelete(command) ==
  LET s == toLowerCase(command)
      spaces(a, b) == a <= b /\ \A k \in a..b : s[k] = " "
  IN  \E i \in 1..Len(s) : \E j \in (i + 3)..Len(s) : \E m \in (j + 4)..Len(s) :
        /\ i = 1 \/ s[i - 1] \in NonWordChars
        /\ SubSeq(s, i, i + 1) = << "r", "m" >>
        /\ spaces(i + 2, j - 1)
        /\ SubSeq(s, j, j + 2) = << "-", "r", "f" >>
        /\ spaces(j + 3, m - 1)
        /\ s[m] = "/"
        /\ m = Len(s) \/ s[m + 1] \in (NonWordChars \ { ".", "-" })

\* WORKSPACE_BLOCKED_COMMANDS
blockedCommand(command) ==
  \/ \E word \in { << "s", "u", "d", "o" >>, << "s", "u" >>,
                   << "s", "h", "u", "t", "d", "o", "w", "n" >>,
                   << "r", "e", "b", "o", "o", "t" >>, << "h", "a", "l", "t" >>,
                   << "p", "o", "w", "e", "r", "o", "f", "f" >> } :
       matchesWord(command, word)
  \/ matchesRootDelete(command)

\* DANGEROUS_SHELL_PATTERNS
dangerousPattern(command) ==
  \/ includes(command, << "$", "(" >>)
  \/ \E i, j \in 1..Len(command) : i < j /\ command[i] = Backtick /\ command[j] = Backtick
  \/ includes(command, << "$", "{" >>)
  \/ includes(command, << "<", "(" >>)
  \/ includes(command, << ">", "(" >>)

\* command.split(/\s*(?:\|{1,2}|&&|;)\s*/)
RECURSIVE subCommands(_)
subCommands(s) ==
  LET isSep(i) == \/ s[i] \in { "|", ";" }
                  \/ s[i] = "&" /\ i < Len(s) /\ s[i + 1] = "&"
  IN  IF \E i \in 1..Len(s) : isSep(i)
        THEN LET i == CHOOSE i \in 1..Len(s) : isSep(i) /\ \A j \in 1..(i - 1) : ~isSep(j)
                 width == IF s[i] = "&" \/ (s[i] = "|" /\ i < Len(s) /\ s[i + 1] = "|")
                            THEN 2 ELSE 1
             IN  << trimString(SubSeq(s, 1, i - 1)) >>
                   \o subCommands(trimString(SubSeq(s, i + width, Len(s))))
        ELSE << s >>

\* The tokens the loops of enforceCommandPolicy visit
commandTokens(command) ==
  LET subs == subCommands(command)
      RECURSIVE gather(_)
      gather(i) == IF i > Len(subs) THEN << >> ELSE shellTokenize(subs[i]) \o gather(i + 1)
  IN  gather(1)

\* enforceCommandPolicy({ command, cwd, permissionPolicy }) throws
enforceCommandPolicy(command, cwd, policy) ==
  LET tokens == commandTokens(command)
  IN  /\ policy.mode = PERMISSION_MODE_WORKSPACE
      /\ \/ blockedCommand(command)
         \/ dangerousPattern(command)
         \/ \E t \in 1..Len(tokens) :
              LET candidates == maybePathCandidates(tokens[t])
              IN  \E c \in 1..Len(candidates) :
                    /\ looksLikePath(candidates[c])
                    /\ ~isPathWithinRoots(normalizeCandidateToAbsolute(candidates[c], cwd),
                                          policy.workspaceRoots)

\* The daemon starts with the policy of its config file.
PolicyInit ==
  /\ currentPermissionPolicy =
       [ mode |-> PERMISSION_MODE_WORKSPACE, workspaceRoots |-> << << << "w" >> >> >> ]
  /\ lastPolicyCall = [ kind |-> "none" ]

ModeInputs ==
  { StringValue(FullText), StringValue(WorkspaceText),
    StringValue(<< " ", "F", "u", "l", "l", " " >>),
    StringValue(<< "a", "d", "m", "i", "n" >>), StringValue(<< >>),
    OtherValue("undefined"), OtherValue("number"), OtherValue("null") }

RootInputs ==
  { << >>,
    << << "/", "w" >> >>,
    << << "/", "s" >> >>,
    << << " ", "/", "w", " " >>, << "/", "w", "/", "a", "/", ".", "." >>, << "~", "/" >> >> }

PolicyInputs == [ mode : ModeInputs, workspaceRoots : RootInputs ]

\* normalizePermissionPolicy(input) as the callers other than the update route call it
normalizeCall(input) ==
  /\ lastPolicyCall' = [ kind |-> "normalize", input |-> input, strict |-> FALSE,
                         policy |-> normalizePermissionPolicy(input, FALSE) ]
  /\ UNCHANGED currentPermissionPolicy
  /\ UNCHANGED notPolicy

\* POST /api/security/policy with an authorized request, and setPermissionPolicy
postPolicy(input) ==
  LET nextPolicy == normalizePermissionPolicy(input, TRUE)
  IN  /\ lastPolicyCall' = [ kind |-> "postPolicy", input |-> input, strict |-> TRUE,
                             policy |-> nextPolicy ]
      /\ currentPermissionPolicy' = IF nextPolicy = PolicyError
                                      THEN currentPermissionPolicy ELSE nextPolicy
      /\ UNCHANGED notPolicy

\* Request bodies: commands and working directories
Cmd(arg) == << "c", " " >> \o arg

CommandInputs ==
  { << >>, << " " >>, << "c" >>,
    Cmd(<< "/", "e" >>), Cmd(<< "/", "w", "/", "a" >>), Cmd(<< ".", ".", "/", "e" >>),
    Cmd(<< "a" >>), Cmd(<< "k", "=", "/", "e" >>),
    Cmd(<< DoubleQuote, "/", "e", DoubleQuote >>),
    Cmd(<< "'", "a", " ", "/", "e", "'" >>), Cmd(<< "/", "e", ":", "/", "/", "x" >>),
    Cmd(<< "h", "t", ":", "/", "/", "x" >>), Cmd(<< "~", "/", "a" >>),
    Cmd(<< "-", "o", "/", "e" >>), Cmd(<< "$", "(", "c", ")" >>), Cmd(<< Backtick, "c", Backtick >>),
    Cmd(<< "/", "w", "/", "l" >>), Cmd(<< "c", ":", "/", "e" >>),
    << "s", "u", "d", "o", " ", "c" >>,
    << "r", "m", " ", "-", "r", "f", " ", "/" >>,
    << "c", ";", "c", " ", "/", "e" >>,
    << "c", " ", "&", "&", " ", "c", " ", ".", "." >> }

CwdInputs ==
  { OtherValue("undefined"), StringValue(<< " ", "/", "w", " " >>),
    StringValue(<< "/", "w", "/", "l" >>), StringValue(<< "/", "s" >>),
    StringValue(<< "/", "e" >>), StringValue(<< "/", "w", "/", "x" >>) }

\* handleExec / handleSessionStart with an authorized request, up to the
\* point where the run is created and the command is spawned
startCommand(route, body) ==
  LET command == IF body.command.type = "string" THEN trimString(body.command.text)
                 ELSE << >>
      permissionPolicy == normalizePermissionPolicy(getPermissionPolicy, FALSE)
      resolved == resolveCwd(body.cwd, permissionPolicy)
      status == IF command = << >> THEN 400
                ELSE IF resolved.error = "Error" THEN 400
                ELSE IF resolved.error = "PermissionPolicyError" THEN 403
                ELSE IF enforceCommandPolicy(command, resolved.cwd, permissionPolicy) THEN 403
                ELSE 200
  IN  /\ lastPolicyCall' = [ kind |-> route, command |-> command,
                             policy |-> permissionPolicy,
                             cwdResolved |-> command # << >> /\ resolved.error = "none",
                             cwd |-> resolved.cwd,
                             status |-> status, spawned |-> status = 200 ]
      /\ UNCHANGED currentPermissionPolicy
      /\ UNCHANGED notPolicy

\* Every command in the default and in a given directory, and two commands
\* in every directory
StartBodies ==
  [ command : { StringValue(c) : c \in CommandInputs } \cup { OtherValue("undefined") },
    cwd : { OtherValue("undefined"), StringValue(<< " ", "/", "w", " " >>) } ]
  \cup [ command : { StringValue(<< "c" >>), StringValue(Cmd(<< ".", ".", "/", "e" >>)) },
         cwd : CwdInputs ]

NextPolicy ==
  \/ \E input \in PolicyInputs : normalizeCall(input)
  \/ \E input \in PolicyInputs : postPolicy(input)
  \/ \E body \in StartBodies : startCommand("exec", body)
  \/ \E body \in StartBodies : startCommand("sessionStart", body)

\* ==================================================================
\* runs of sessions (src/src/server.mjs, lines 209-229, 364-409 and
\* 806-813; src/src/runtime.mjs, lines 96-109, 458-587 and 671-680)

\* The sessions started through POST /api/runtime/session/start, as the
\* server and the exit listener see them.  sessionMap keeps the ids of the
\* live map in the order of finishedAt || startedAt, the order pruneSessions
\* sorts them in.  The run of session id is the record with
\* meta.sessionId = id; the run store keeps it (MAX_RUNS is not reached here).

SessionIds == { "s1", "s2" }

NoSession ==
  [ pc |-> "none", signal |-> "none", timedOut |-> FALSE, timeoutRef |-> FALSE,
    killTimer |-> FALSE, exitCode |-> NoCode ]

SessionRunInit ==
  /\ sessionProcs = [ id \in SessionIds |-> NoSession ]
  /\ sessionMap = << >>
  /\ sessionRunIndex = {}
  /\ sessionRuns = [ id \in SessionIds |-> "none" ]
  /\ runUpdates = {}
  /\ exitListener = TRUE
  /\ serverOpen = TRUE

\* child.kill(signal): SIGKILL is not undone by a later SIGTERM
killed(proc, signal) ==
  [ proc EXCEPT !.signal = IF proc.signal = "SIGKILL" THEN "SIGKILL" ELSE signal ]

\* pruneSessions(): the map it leaves, `expired` being the exited sessions
\* older than the TTL
prunedMap(expired) ==
  LET kept == SelectSeq(sessionMap, LAMBDA id : id \notin expired)
      over == Len(kept) - MAX_SESSION_COUNT
  IN  IF over <= 0 THEN kept ELSE SubSeq(kept, over + 1, Len(kept))

\* pruneSessions(): a running session that is dropped is sent SIGTERM and
\* loses its timeout
prunedSessions(expired) ==
  [ id \in SessionIds |->
      IF id \in Range(sessionMap) \ Range(prunedMap(expired)) /\ sessionProcs[id].pc = "running"
        THEN [ killed(sessionProcs[id], "SIGTERM") EXCEPT !.timeoutRef = FALSE ]
        ELSE sessionProcs[id] ]

Expirable == { id \in Range(sessionMap) : sessionProcs[id].pc = "exited" }

\* The interval of startSessionPruner
prunerTick(expired) ==
  /\ serverOpen
  /\ prunedMap(expired) # sessionMap
  /\ sessionMap' = prunedMap(expired)
  /\ sessionProcs' = prunedSessions(expired)
  /\ UNCHANGED << sessionRunIndex, sessionRuns, runUpdates, exitListener, serverOpen >>
  /\ UNCHANGED notSessionRuns

\* handleSessionStart up to `await registerSessionRun(...)`
handleSessionStart(id, expired) ==
  /\ serverOpen
  /\ sessionProcs[id].pc = "none"
  /\ sessionMap' = prunedMap(expired)
  /\ sessionProcs' = [ prunedSessions(expired) EXCEPT ![id].pc = "registering" ]
  /\ UNCHANGED << sessionRunIndex, sessionRuns, runUpdates, exitListener, serverOpen >>
  /\ UNCHANGED notSessionRuns

\* registerSessionRun after createRun settled, then startCommandSession
startSession(id, runCreated) ==
  /\ sessionProcs[id].pc = "registering"
  /\ sessionRuns' = [ sessionRuns EXCEPT ![id] = IF runCreated THEN "running" ELSE "none" ]
  /\ sessionRunIndex' = IF runCreated THEN sessionRunIndex \cup { id } ELSE sessionRunIndex
  /\ sessionProcs' = [ sessionProcs EXCEPT ![id] =
                         [ NoSession EXCEPT !.pc = "running", !.timeoutRef = TRUE ] ]
  /\ sessionMap' = Append(sessionMap, id)
  /\ UNCHANGED << runUpdates, exitListener, serverOpen >>
  /\ UNCHANGED notSessionRuns

\* The exit listener of createCompanionServer, called by notifySessionExited
sessionExitListener(id, exitCode, timedOut) ==
  IF exitListener /\ id \in sessionRunIndex
    THEN runUpdates \cup { [ id |-> id,
                             state |-> IF ~timedOut /\ exitCode = 0 THEN "done" ELSE "failed" ] }
    ELSE runUpdates

\* finalizeSessionExit(session, { exitCode }) of a running session
sessionExit(id, exitCode) ==
  /\ sessionProcs[id].pc = "running"
  /\ sessionProcs' = [ sessionProcs EXCEPT ![id].pc = "exited", ![id].exitCode = exitCode,
                                           ![id].timeoutRef = FALSE ]
  /\ sessionMap' = IF id \in Range(sessionMap)
                     THEN Append(SelectSeq(sessionMap, LAMBDA other : other # id), id)
                     ELSE sessionMap
  /\ runUpdates' = sessionExitListener(id, exitCode, sessionProcs[id].timedOut)
  /\ UNCHANGED << sessionRunIndex, sessionRuns, exitListener, serverOpen >>
  /\ UNCHANGED notSessionRuns

\* child 'close' of a command that ends by itself, or that ends on the
\* SIGTERM it was sent (a command may also survive SIGTERM)
sessionClose(id, code) ==
  /\ code = -1 => sessionProcs[id].signal = "SIGTERM"
  /\ sessionExit(id, code)

\* child 'error'
sessionError(id) ==
  /\ sessionProcs[id].signal = "none"
  /\ sessionExit(id, -1)

\* child 'close' with code null after SIGKILL
sessionKilled(id) ==
  /\ sessionProcs[id].signal = "SIGKILL"
  /\ sessionExit(id, -1)

\* The timeout of startCommandSession
sessionTimeout(id) ==
  /\ sessionProcs[id].timeoutRef
  /\ sessionProcs[id].pc = "running"
  /\ sessionProcs' = [ sessionProcs EXCEPT ![id] =
                         [ killed(@, "SIGTERM") EXCEPT !.timedOut = TRUE, !.timeoutRef = FALSE,
                                                       !.killTimer = TRUE ] ]
  /\ UNCHANGED << sessionMap, sessionRunIndex, sessionRuns, runUpdates, exitListener,
                  serverOpen >>
  /\ UNCHANGED notSessionRuns

\* The 3 s timer of the timeout and of stopSession
sessionKillTimer(id) ==
  /\ sessionProcs[id].killTimer
  /\ sessionProcs' = [ sessionProcs EXCEPT ![id] =
                         [ (IF @.pc = "running" THEN killed(@, "SIGKILL") ELSE @)
                             EXCEPT !.killTimer = FALSE ] ]
  /\ UNCHANGED << sessionMap, sessionRunIndex, sessionRuns, runUpdates, exitListener,
                  serverOpen >>
  /\ UNCHANGED notSessionRuns

\* stopSession(sessionId, force) of a running session
stopSession(id, force) ==
  /\ id \in Range(sessionMap)
  /\ sessionProcs[id].pc = "running"
  /\ sessionProcs' = [ sessionProcs EXCEPT ![id] =
                         IF force THEN killed(@, "SIGKILL")
                         ELSE [ killed(@, "SIGTERM") EXCEPT !.killTimer = TRUE ] ]
  /\ UNCHANGED << sessionMap, sessionRunIndex, sessionRuns, runUpdates, exitListener,
                  serverOpen >>
  /\ UNCHANGED notSessionRuns

\* server 'close', emitted once every connection has ended (no request is in
\* flight): detach the listener, clear the index, cleanupAllSessions
serverClose ==
  /\ serverOpen
  /\ \A id \in SessionIds : sessionProcs[id].pc # "registering"
  /\ serverOpen' = FALSE
  /\ exitListener' = FALSE
  /\ sessionRunIndex' = {}
  /\ sessionProcs' = [ id \in SessionIds |->
                         IF id \in Range(sessionMap) /\ sessionProcs[id].pc = "running"
                           THEN killed(sessionProcs[id], "SIGTERM")
                           ELSE sessionProcs[id] ]
  /\ sessionMap' = << >>
  /\ UNCHANGED << sessionRuns, runUpdates >>
  /\ UNCHANGED notSessionRuns

\* The listener's `void updateRun(runId, ...)` applies, then `.finally`
sessionRunUpdate(update) ==
  /\ update \in runUpdates
  /\ sessionRuns' = [ sessionRuns EXCEPT ![update.id] = update.state ]
  /\ runUpdates' = runUpdates \ { update }
  /\ sessionRunIndex' = sessionRunIndex \ { update.id }
  /\ UNCHANGED << sessionProcs, sessionMap, exitListener, serverOpen >>
  /\ UNCHANGED notSessionRuns

RunUpdates == [ id : SessionIds, state : { "done", "failed" } ]

NextSessionRuns ==
  \/ \E id \in SessionIds, expired \in SUBSET Expirable : handleSessionStart(id, expired)
  \/ \E id \in SessionIds, runCreated \in BOOLEAN : startSession(id, runCreated)
  \/ \E expired \in SUBSET Expirable : prunerTick(expired)
  \/ \E id \in SessionIds, code \in { 0, 1, -1 } : sessionClose(id, code)
  \/ \E id \in SessionIds : sessionError(id)
  \/ \E id \in SessionIds : sessionKilled(id)
  \/ \E id \in SessionIds : sessionTimeout(id)
  \/ \E id \in SessionIds : sessionKillTimer(id)
  \/ \E id \in SessionIds, force \in BOOLEAN : stopSession(id, force)
  \/ serverClose
  \/ \E update \in RunUpdates : sessionRunUpdate(update)

\* Pending continuations run, armed timers fire and a child that was sent
\* SIGKILL closes; a command may run until its timeout and may survive SIGTERM.
SessionRunFairness ==
  /\ \A id \in SessionIds :
       /\ WF_vars(\E runCreated \in BOOLEAN : startSession(id, runCreated))
       /\ WF_vars(sessionTimeout(id))
       /\ WF_vars(sessionKillTimer(id))
       /\ WF_vars(sessionKilled(id))
  /\ \A update \in RunUpdates : WF_vars(sessionRunUpdate(update))

\* ==================================================================
\* daemon shutdown (src/bin/cli.mjs, lines 268-300; src/src/server.mjs,
\* lines 806-813; src/src/run-store.mjs, lines 152-183, 228-238, 521-542
\* and 577-583; lines 976-980 and 1100-1113)

\* daemon.pc: "serving", then "removingPid" once shutdown() has awaited
\* stopAll(), called server.close() and started removePid(), then "exited"
\* at process.exit(0).  A store is "clean", has its debounce "timer" armed,
\* or has a writeStoreNow "writing".  A child is "none", "spawning" (a tool
\* server before its transport exists), "running" or "signalled".

DaemonInit ==
  daemon = [ pc |-> "serving", closeEvent |-> "none", connections |-> 0,
             runs |-> "clean", approvals |-> "clean",
             sessionChild |-> "none", mcpChild |-> "none" ]

StoreNames == { "runs", "approvals" }

StoreOf(d, store) == IF store = "runs" THEN d.runs ELSE d.approvals

WithStore(d, store, value) ==
  IF store = "runs" THEN [ d EXCEPT !.runs = value ] ELSE [ d EXCEPT !.approvals = value ]

\* A mutation of a store: schedulePersist()
daemonMutation(store) ==
  /\ daemon.pc = "serving"
  /\ StoreOf(daemon, store) = "clean"
  /\ daemon' = WithStore(daemon, store, "timer")
  /\ UNCHANGED notDaemon

\* The debounce timer of schedulePersist fires: writeStoreNow() starts
daemonPersistTimer(store) ==
  /\ daemon.pc # "exited"
  /\ StoreOf(daemon, store) = "timer"
  /\ daemon' = WithStore(daemon, store, "writing")
  /\ UNCHANGED notDaemon

\* writeStoreNow() has renamed the temporary file over its target
daemonWriteDone(store) ==
  /\ daemon.pc # "exited"
  /\ StoreOf(daemon, store) = "writing"
  /\ daemon' = WithStore(daemon, store, "clean")
  /\ UNCHANGED notDaemon

\* A client connects and keeps its connection; it ends it when it likes
daemonConnect ==
  /\ daemon.pc = "serving"
  /\ daemon.connections = 0
  /\ daemon' = [ daemon EXCEPT !.connections = 1 ]
  /\ UNCHANGED notDaemon

\* The last connection ends: a closing server emits 'close'
daemonDisconnect ==
  /\ daemon.pc # "exited"
  /\ daemon.connections = 1
  /\ daemon' = [ daemon EXCEPT !.connections = 0,
                               !.closeEvent = IF @ = "waiting" THEN "queued" ELSE @ ]
  /\ UNCHANGED notDaemon

\* POST .../session/start spawns a child; startServer spawns a tool server,
\* whose transport exists after its 'spawn' event
daemonSpawn(kind) ==
  /\ daemon.pc = "serving"
  /\ IF kind = "session"
       THEN /\ daemon.sessionChild = "none"
            /\ daemon' = [ daemon EXCEPT !.sessionChild = "running" ]
       ELSE /\ daemon.mcpChild \in { "none", "spawning" }
            /\ daemon' = [ daemon EXCEPT !.mcpChild = IF @ = "none" THEN "spawning"
                                                      ELSE "running" ]
  /\ UNCHANGED notDaemon

\* shutdown() on SIGINT or SIGTERM, to its await of removePid():
\* stopCronScheduler(), await mcpManager.stopAll(), server.close()
shutdown ==
  /\ daemon.pc = "serving"
  /\ daemon' = [ daemon EXCEPT !.pc = "removingPid",
                               !.mcpChild = IF @ = "running" THEN "signalled" ELSE @,
                               !.closeEvent = IF daemon.connections = 0 THEN "queued"
                                              ELSE "waiting" ]
  /\ UNCHANGED notDaemon

\* server.on('close'): cleanupAllSessions(), void flushRunStore(),
\* void flushApprovalStore()
flushed(state) == IF state = "timer" THEN "writing" ELSE state

daemonServerClose ==
  /\ daemon.pc = "removingPid"
  /\ daemon.closeEvent = "queued"
  /\ daemon' = [ daemon EXCEPT !.closeEvent = "done",
                               !.sessionChild = IF @ = "running" THEN "signalled" ELSE @,
                               !.runs = flushed(@),
                               !.approvals = flushed(@) ]
  /\ UNCHANGED notDaemon

\* fs.unlink of removePid() has completed: process.exit(0).  A 'close' that
\* server.close() queued with process.nextTick has run by then.
daemonExit ==
  /\ daemon.pc = "removingPid"
  /\ daemon.closeEvent # "queued"
  /\ daemon' = [ daemon EXCEPT !.pc = "exited" ]
  /\ UNCHANGED notDaemon

NextDaemon ==
  \/ \E store \in StoreNames : daemonMutation(store)
  \/ \E store \in StoreNames : daemonPersistTimer(store)
  \/ \E store \in StoreNames : daemonWriteDone(store)
  \/ daemonConnect
  \/ daemonDisconnect
  \/ \E kind \in { "session", "mcp" } : daemonSpawn(kind)
  \/ shutdown
  \/ daemonServerClose
  \/ daemonExit

\* ==================================================================
\* routes addressed to an id (src/src/server.mjs, lines 231-292, 337-343,
\* 481-532, 573-635 and 799; src/src/runtime.mjs, lines 414-417, 569-613)

\* Requests carry a valid token.  The id x1 names what idWorld holds, the id
\* x2 names nothing.  `input` is the body of the request (for the log route,
\* its query): absent, well-formed for the route, or malformed.

IdRouteInit ==
  /\ idWorld = [ session |-> "none", run |-> FALSE, approval |-> FALSE ]
  /\ idResponse = [ route |-> "none", id |-> "", input |-> "", known |-> FALSE, status |-> 0 ]

IdRoutes ==
  { "sessionStatus", "sessionStop", "sessionLog", "sessionWrite", "sessionSendKeys",
    "runById", "approvalResolve", "approvalById", "unmatched" }

RequestIds == { "x1", "x2" }
RequestInputs == { "absent", "valid", "malformed" }

\* getSessionById / getRunById / getApprovalById finds something
idKnown(route, id) ==
  /\ id = "x1"
  /\ IF route \in { "runById" } THEN idWorld.run
     ELSE IF route \in { "approvalResolve", "approvalById" } THEN idWorld.approval
     ELSE IF route = "unmatched" THEN FALSE
     ELSE idWorld.session # "none"

\* writeToSession / sendKeysToSession throws
sessionInputThrows(id) == ~idKnown("sessionWrite", id) \/ idWorld.session # "running"

\* The status each handler answers with
idStatus(route, id, input) ==
  CASE route = "sessionStatus" -> IF idKnown(route, id) THEN 200 ELSE 404
    [] route = "sessionStop" ->
         IF input = "malformed" THEN 400 ELSE IF idKnown(route, id) THEN 200 ELSE 404
    [] route = "sessionLog" ->
         IF ~idKnown(route, id) THEN 404 ELSE IF input = "malformed" THEN 400 ELSE 200
    [] route \in { "sessionWrite", "sessionSendKeys" } ->
         IF input # "valid" THEN 400 ELSE IF sessionInputThrows(id) THEN 400 ELSE 200
    [] route = "runById" -> IF idKnown(route, id) THEN 200 ELSE 404
    [] route = "approvalResolve" ->
         IF input = "malformed" THEN 400 ELSE IF idKnown(route, id) THEN 200 ELSE 404
    [] route = "approvalById" -> IF idKnown(route, id) THEN 200 ELSE 404
    [] OTHER -> 404

\* One authorized request to a route that takes an id, or to no route
idRequest(route, id, input) ==
  /\ idResponse' = [ route |-> route, id |-> id, input |-> input,
                     known |-> idKnown(route, id), status |-> idStatus(route, id, input) ]
  /\ idWorld' = IF route = "sessionStop" /\ input # "malformed" /\ idKnown(route, id)
                   /\ idWorld.session = "running"
                  THEN [ idWorld EXCEPT !.session = "exited" ]
                  ELSE idWorld
  /\ UNCHANGED notIdRoute

\* What happens to x1 between requests: a session starts, exits and is
\* pruned; a run and an approval are created
idWorldStep ==
  /\ \/ idWorld.session = "none" /\ idWorld' = [ idWorld EXCEPT !.session = "running" ]
     \/ idWorld.session = "running" /\ idWorld' = [ idWorld EXCEPT !.session = "exited" ]
     \/ idWorld.session = "exited" /\ idWorld' = [ idWorld EXCEPT !.session = "none" ]
     \/ ~idWorld.run /\ idWorld' = [ idWorld EXCEPT !.run = TRUE ]
     \/ ~idWorld.approval /\ idWorld' = [ idWorld EXCEPT !.approval = TRUE ]
  /\ UNCHANGED idResponse
  /\ UNCHANGED notIdRoute

NextIdRoutes ==
  \/ \E route \in IdRoutes, id \in RequestIds, input \in RequestInputs :
       idRequest(route, id, input)
  \/ idWorldStep

\* ======================================================================
\* StdioTransport: requests, responses, timeouts, close and the child
\* (src/src/mcp-transport.mjs)
\* ======================================================================

MaxRequests == 3
RequestIdsOf == 1..MaxRequests

\* #nextId = 1, #pending = new Map(), #closed = false.  settled[id] lists
\* the calls of the request's resolve or reject, issued the ids handed out.
TransportInit ==
  transport = [ nextId |-> 1, pending |-> {}, timers |-> {}, closed |-> FALSE,
                issued |-> << >>, settled |-> [ id \in RequestIdsOf |-> << >> ],
                threw |-> FALSE, stdoutOpen |-> TRUE,
                child |-> "running", procKilled |-> FALSE, killTimer |-> "none",
                signals |-> << >>, closeCalls |-> 0 ]

\* this.#pending.delete(id)
withoutEntry_Keep(pending, id) == pending

withoutEntry(pending, id) == pending \ { id }

\* for (const [, entry] of this.#pending) { clearTimeout(entry.timer);
\* entry.reject(...) }; this.#pending.clear()
rejectAll(t, how) ==
  [ t EXCEPT !.settled = [ id \in RequestIdsOf |->
                             IF id \in t.pending THEN Append(@[id], how) ELSE @[id] ],
             !.timers = @ \ t.pending,
             !.pending = {} ]

\* request(method, params); writeThrows: stdin.write throws
transportRequest(writeThrows) ==
  /\ transport.nextId <= MaxRequests
  /\ IF transport.closed
       THEN transport' = [ transport EXCEPT !.threw = TRUE ]
       ELSE LET id == transport.nextId
                sent == [ transport EXCEPT !.nextId = @ + 1,
                                           !.issued = Append(@, id),
                                           !.pending = @ \cup { id },
                                           !.timers = @ \cup { id } ]
            IN  transport' =
                  IF writeThrows
                    THEN [ sent EXCEPT !.pending = withoutEntry(@, id),
                                       !.timers = @ \ { id },
                                       !.settled[id] = Append(@, "write") ]
                    ELSE sent
  /\ UNCHANGED notTransport

\* the setTimeout callback of request id
transportTimeout(id) ==
  /\ id \in transport.timers
  /\ transport' = [ transport EXCEPT !.timers = @ \ { id },
                                     !.pending = withoutEntry(@, id),
                                     !.settled[id] = Append(@, "timeout") ]
  /\ UNCHANGED notTransport

\* #handleMessage of a response carrying id, read from the child's stdout;
\* a response whose id has no pending entry is dropped
handleMessage(id, kind) ==
  /\ transport.stdoutOpen
  /\ transport.child # "closed"
  /\ IF id \in transport.pending
       THEN transport' = [ transport EXCEPT !.pending = withoutEntry(@, id),
                                            !.timers = @ \ { id },
                                            !.settled[id] = Append(@, kind) ]
       ELSE UNCHANGED transport
  /\ UNCHANGED notTransport

\* close()
MaxCloseCalls == 2

transportClose ==
  /\ transport.closeCalls < MaxCloseCalls
  /\ IF transport.closed
       THEN transport' = [ transport EXCEPT !.closeCalls = @ + 1 ]
       ELSE LET delivered == transport.child = "running"
            IN  transport' =
                  [ rejectAll(transport, "close") EXCEPT
                      !.closed = TRUE,
                      !.closeCalls = @ + 1,
                      !.stdoutOpen = FALSE,
                      !.signals = IF delivered THEN Append(@, "SIGTERM") ELSE @,
                      !.procKilled = delivered,
                      !.killTimer = "armed" ]
  /\ UNCHANGED notTransport

\* the 3000 ms timer of close()
killTimerFires ==
  /\ transport.killTimer = "armed"
  /\ transport' =
       [ transport EXCEPT
           !.killTimer = "fired",
           !.signals = IF ~transport.procKilled /\ transport.child = "running"
                         THEN Append(@, "SIGKILL") ELSE @ ]
  /\ UNCHANGED notTransport

\* the child exits: 'exit' clears the kill timer
transportChildExit ==
  /\ transport.child = "running"
  /\ transport' = [ transport EXCEPT
                      !.child = "exited",
                      !.killTimer = IF @ = "armed" THEN "cleared" ELSE @ ]
  /\ UNCHANGED notTransport

\* 'close' of the child: #onClose
onClose ==
  /\ transport.child = "exited"
  /\ transport' =
       IF transport.closed
         THEN [ transport EXCEPT !.child = "closed" ]
         ELSE [ rejectAll(transport, "exit") EXCEPT !.closed = TRUE, !.child = "closed" ]
  /\ UNCHANGED notTransport

\* 'error' of the child: #onError
onError ==
  /\ transport.child = "running"
  /\ ~transport.closed
  /\ transport' = [ rejectAll(transport, "error") EXCEPT !.closed = TRUE ]
  /\ UNCHANGED notTransport

NextTransport ==
  \/ \E writeThrows \in BOOLEAN : transportRequest(writeThrows)
  \/ \E id \in RequestIdsOf : transportTimeout(id)
  \/ \E id \in RequestIdsOf, kind \in { "result", "error response" } : handleMessage(id, kind)
  \/ transportClose
  \/ killTimerFires
  \/ transportChildExit
  \/ onClose
  \/ onError

\* ======================================================================
\* On-disk writes of the four stores: config.json, runs.json,
\* approvals.json and cron-jobs.json
\* ======================================================================

DiskStores == { "config", "runs", "approvals", "cron" }
MaxVersion == 2

\* A file holds the content of one version of its store, completely or,
\* between the truncating open of fs.writeFile and its last byte, in part.
NoFile == [ exists |-> FALSE, version |-> 0, complete |-> FALSE ]

DiskInit ==
  storeDisk = [ crashed |-> FALSE,
                stores |-> [ s \in DiskStores |->
                  [ version |-> 0, payload |-> 0, pc |-> "idle",
                    target |-> [ exists |-> TRUE, version |-> 0, complete |-> TRUE ],
                    tmp |-> NoFile ] ] ]

\* The path that fs.writeFile is given: saveConfig and the cron saveStore
\* pass the store's file, the two writeStoreNow pass `${target}.tmp`.
writePath(s) ==
  CASE s = "config" -> "target"
    [] s = "cron" -> "target"
    [] s = "runs" -> "tmp"
    [] s = "approvals" -> "tmp"

\* a mutation of the store in memory followed by the start of its write:
\* the payload is serialised
diskSave(s) ==
  LET st == storeDisk.stores[s]
  IN  /\ ~storeDisk.crashed
      /\ st.pc = "idle"
      /\ st.version < MaxVersion
      /\ storeDisk' = [ storeDisk EXCEPT !.stores[s].version = @ + 1,
                                         !.stores[s].payload = st.version + 1,
                                         !.stores[s].pc = "open" ]
      /\ UNCHANGED notDisk

\* fs.writeFile opens its path for writing, which truncates it
diskOpen(s) ==
  LET st == storeDisk.stores[s]
      opened == [ exists |-> TRUE, version |-> st.payload, complete |-> FALSE ]
  IN  /\ ~storeDisk.crashed
      /\ st.pc = "open"
      /\ storeDisk' =
           IF writePath(s) = "tmp"
             THEN [ storeDisk EXCEPT !.stores[s].tmp = opened, !.stores[s].pc = "data" ]
             ELSE [ storeDisk EXCEPT !.stores[s].target = opened, !.stores[s].pc = "data" ]
      /\ UNCHANGED notDisk

\* fs.writeFile has written the whole payload
diskData(s) ==
  LET st == storeDisk.stores[s]
  IN  /\ ~storeDisk.crashed
      /\ st.pc = "data"
      /\ storeDisk' =
           IF writePath(s) = "tmp"
             THEN [ storeDisk EXCEPT !.stores[s].tmp.complete = TRUE,
                                     !.stores[s].pc = "rename" ]
             ELSE [ storeDisk EXCEPT !.stores[s].target.complete = TRUE,
                                     !.stores[s].pc = "idle" ]
      /\ UNCHANGED notDisk

\* fs.rename(tmp, target)
diskRename(s) ==
  LET st == storeDisk.stores[s]
  IN  /\ ~storeDisk.crashed
      /\ st.pc = "rename"
      /\ storeDisk' = [ storeDisk EXCEPT !.stores[s].target = st.tmp,
                                         !.stores[s].tmp = NoFile,
                                         !.stores[s].pc = "idle" ]
      /\ UNCHANGED notDisk

\* the process dies; the files stay as they are
diskCrash ==
  /\ ~storeDisk.crashed
  /\ storeDisk' = [ storeDisk EXCEPT !.crashed = TRUE ]
  /\ UNCHANGED notDisk

NextDisk ==
  \/ \E s \in DiskStores : diskSave(s)
  \/ \E s \in DiskStores : diskOpen(s)
  \/ \E s \in DiskStores : diskData(s)
  \/ \E s \in DiskStores : diskRename(s)
  \/ diskCrash

\* ======================================================================
\* Loading the runs store: the load of server construction and the lazy
\* load of ensureLoaded (src/src/run-store.mjs, src/src/server.mjs)
\* ======================================================================

MaxCallers == 4
LoadOrigins == { "construction", "lazy" }

\* loaded = false, loadingPromise = null; no load has started.  created
\* counts the runs added in memory since the last load assigned the store,
\* discarded the runs that were in memory, returned by createRun and not
\* yet in the file, when a load assigned the store again.
LoadInit ==
  runLoad = [ loaded |-> FALSE, loadingPromise |-> FALSE,
              load |-> [ o \in LoadOrigins |-> "none" ],
              waiting |-> 0, callers |-> 0, created |-> 0, discarded |-> 0 ]

\* createCompanionServer: void loadRunStore().catch(() => undefined)
createCompanionServer ==
  /\ runLoad.load["construction"] = "none"
  /\ runLoad' = [ runLoad EXCEPT !.load["construction"] = "ensureConfigDir" ]
  /\ UNCHANGED notLoad

\* ensureLoaded() at the head of createRun: once the store is loaded the
\* caller goes on and adds its run; otherwise it waits for loadingPromise,
\* which it starts when there is none
ensureLoaded ==
  /\ runLoad.callers < MaxCallers
  /\ runLoad' =
       IF runLoad.loaded
         THEN [ runLoad EXCEPT !.callers = @ + 1, !.created = @ + 1 ]
         ELSE IF runLoad.loadingPromise
           THEN [ runLoad EXCEPT !.callers = @ + 1, !.waiting = @ + 1 ]
           ELSE [ runLoad EXCEPT !.callers = @ + 1, !.waiting = @ + 1,
                                 !.loadingPromise = TRUE,
                                 !.load["lazy"] = "ensureConfigDir" ]
  /\ UNCHANGED notLoad

\* loadRunStore passes an await: ensureConfigDir, then cleanOrphanTmp
loadStep(origin) ==
  /\ runLoad.load[origin] \in { "ensureConfigDir", "cleanOrphanTmp" }
  /\ runLoad' = [ runLoad EXCEPT !.load[origin] =
                    IF @ = "ensureConfigDir" THEN "cleanOrphanTmp" ELSE "readStoreFile" ]
  /\ UNCHANGED notLoad

LoadInFlight == { "ensureConfigDir", "cleanOrphanTmp", "readStoreFile" }

\* loadRunStore comes to its end: store = the file's runs, loaded = true;
\* the lazy load clears loadingPromise and its waiters go on
loadDone(origin) ==
  /\ runLoad.load[origin] = "readStoreFile"
  /\ runLoad' =
       IF origin = "lazy"
         THEN [ runLoad EXCEPT !.load[origin] = "done", !.loaded = TRUE,
                               !.loadingPromise = FALSE,
                               !.discarded = @ + runLoad.created,
                               !.created = runLoad.waiting, !.waiting = 0 ]
         ELSE [ runLoad EXCEPT !.load[origin] = "done", !.loaded = TRUE,
                               !.discarded = @ + runLoad.created,
                               !.created = 0 ]
  /\ UNCHANGED notLoad

NextLoad ==
  \/ createCompanionServer
  \/ ensureLoaded
  \/ \E origin \in LoadOrigins : loadStep(origin)
  \/ \E origin \in LoadOrigins : loadDone(origin)

\* ======================================================================
\* Debounced persistence and flush of the runs store and the approval
\* store (src/src/run-store.mjs)
\* ======================================================================

MaxMutations == 2
MaxWrites == 2
WriteIds == 1..MaxWrites
NoWrite == 0

\* Per store: version counts the mutations accepted, timers the debounce
\* timers armed, writes are the writeStoreNow calls (payload: the version
\* serialised), persistPromise the write that the runs store tracks, file
\* the version in the store's file.  flush records the call of
\* flushRunStore / flushApprovalStore and what was true when it resolved.
PersistInit ==
  persist = [ s \in StoreNames |->
    [ version |-> 0, timers |-> 0, persistPromise |-> NoWrite, file |-> 0,
      writes |-> [ w \in WriteIds |-> [ pc |-> "none", payload |-> 0, origin |-> "none" ] ],
      flush |-> [ pc |-> "idle", awaiting |-> NoWrite, accepted |-> 0,
                  fileAtResolve |-> 0, inFlightAtResolve |-> FALSE ] ] ]

FreeWrites(p) == { w \in WriteIds : p.writes[w].pc = "none" }
InFlight(p) == { w \in WriteIds : p.writes[w].pc = "inflight" }

\* writeStoreNow() is called: the store is serialised
writeStarted(p, w, origin) ==
  [ p EXCEPT !.writes[w] = [ pc |-> "inflight", payload |-> p.version, origin |-> origin ] ]

\* the flush call resolves
flushResolved(p) ==
  [ p EXCEPT !.flush.pc = "resolved", !.flush.awaiting = NoWrite,
             !.flush.fileAtResolve = p.file,
             !.flush.inFlightAtResolve = InFlight(p) # {} ]

\* if (persistPromise) await persistPromise  (flushRunStore only)
flushAwaitPromise(s, p) ==
  IF s = "runs" /\ p.persistPromise # NoWrite
    THEN [ p EXCEPT !.flush.pc = "awaitPromise", !.flush.awaiting = p.persistPromise ]
    ELSE flushResolved(p)

\* a mutation of the store followed by schedulePersist():
\* if (persistTimer) return; persistTimer = setTimeout(...)
persistMutation(s) ==
  LET p == persist[s]
  IN  /\ p.version < MaxMutations
      /\ persist' = [ persist EXCEPT ![s] =
           [ p EXCEPT !.version = @ + 1,
                      !.timers = IF @ > 0 THEN @ ELSE @ + 1 ] ]
      /\ UNCHANGED notPersist

\* the debounce timer fires: persistTimer = null and writeStoreNow()
\* starts; the runs store keeps its promise in persistPromise
persistTimerFires(s) ==
  LET p == persist[s]
  IN  /\ p.timers > 0
      /\ \E w \in FreeWrites(p) :
           /\ \A v \in FreeWrites(p) : w <= v
           /\ persist' = [ persist EXCEPT ![s] =
                [ writeStarted(p, w, "timer") EXCEPT
                    !.timers = 0,
                    !.persistPromise = IF s = "runs" THEN w ELSE @ ] ]
      /\ UNCHANGED notPersist

\* a write comes to its end: the rename has put its payload in the file;
\* the finally of a timer-started write of the runs store sets
\* persistPromise = null; a flush that awaits this write goes on
persistWriteDone(s, w) ==
  LET p == persist[s]
      done == [ p EXCEPT !.writes[w].pc = "done",
                         !.file = p.writes[w].payload,
                         !.persistPromise =
                           IF s = "runs" /\ p.writes[w].origin = "timer" THEN NoWrite ELSE @ ]
  IN  /\ p.writes[w].pc = "inflight"
      /\ persist' = [ persist EXCEPT ![s] =
           IF p.flush.awaiting # w THEN done
           ELSE IF p.flush.pc = "awaitWrite" THEN flushAwaitPromise(s, done)
           ELSE flushResolved(done) ]
      /\ UNCHANGED notPersist

\* flushRunStore() / flushApprovalStore()
flushStore(s) ==
  LET p == persist[s]
      called == [ p EXCEPT !.flush.accepted = p.version ]
  IN  /\ p.flush.pc = "idle"
      /\ IF p.timers > 0
           THEN \E w \in FreeWrites(p) :
                  /\ \A v \in FreeWrites(p) : w <= v
                  /\ persist' = [ persist EXCEPT ![s] =
                       [ writeStarted(called, w, "flush") EXCEPT
                           !.timers = 0,
                           !.flush.pc = "awaitWrite",
                           !.flush.awaiting = w ] ]
           ELSE persist' = [ persist EXCEPT ![s] = flushAwaitPromise(s, called) ]
      /\ UNCHANGED notPersist

NextPersist ==
  \/ \E s \in StoreNames : persistMutation(s)
  \/ \E s \in StoreNames : persistTimerFires(s)
  \/ \E s \in StoreNames, w \in WriteIds : persistWriteDone(s, w)
  \/ \E s \in StoreNames : flushStore(s)

\* ======================================================================
\* One command session: its output, its exit and the exit listeners
\* (src/src/runtime.mjs)
\* ======================================================================

Listeners == { "l1", "l2" }
MaxChunks == 2

NoSnapshot == [ status |-> "none", exitCode |-> NoCode, finishedAt |-> NoTime,
                stdout |-> << >>, stderr |-> << >> ]

\* No session yet.  exitedEvents counts the session_exited events pushed
\* for the session, calls the calls of each listener, given the snapshot a
\* listener was called with; atExit keeps the listeners registered and the
\* session's fields at the moment finalizeSessionExit made it exited.
WatchInit ==
  watched = [ status |-> "none", stdout |-> << >>, stderr |-> << >>, chunks |-> 0,
              exitCode |-> NoCode, finishedAt |-> NoTime,
              child |-> "none", errorFired |-> FALSE, exitedEvents |-> 0,
              registered |-> {}, throwing |-> {},
              calls |-> [ l \in Listeners |-> 0 ],
              given |-> [ l \in Listeners |-> NoSnapshot ],
              atExit |-> [ registered |-> {}, snapshot |-> NoSnapshot ] ]

\* makeSessionSnapshot(session)
makeSessionSnapshot(w) ==
  [ status |-> w.status, exitCode |-> w.exitCode, finishedAt |-> w.finishedAt,
    stdout |-> w.stdout, stderr |-> w.stderr ]

\* if (!session || session.status === 'exited') return false
hasExited_Never(w) == FALSE

hasExited(w) == w.status = "exited"

\* finalizeSessionExit(session, { exitCode, stderrAppend }) with
\* emitSessionExited and notifySessionExited: every registered listener is
\* called inside try/catch, so a listener that throws does not end the loop
finalizeWatched(w, exitCode, stderrAppend) ==
  IF hasExited(w) THEN w
  ELSE LET exited == [ w EXCEPT
                         !.stderr = IF stderrAppend
                                      THEN trimOutput(trim(@ \o << WhiteSpace >> \o ErrorMessage))
                                      ELSE @,
                         !.status = "exited",
                         !.exitCode = exitCode,
                         !.finishedAt = now ]
           snapshot == makeSessionSnapshot(exited)
       IN  [ exited EXCEPT
               !.exitedEvents = @ + 1,
               !.calls = [ l \in Listeners |-> IF l \in w.registered THEN @[l] + 1 ELSE @[l] ],
               !.given = [ l \in Listeners |-> IF l \in w.registered THEN snapshot ELSE @[l] ],
               !.atExit = [ registered |-> w.registered, snapshot |-> snapshot ] ]

\* startCommandSession: the child is spawned, the session is running
startWatchedSession ==
  /\ watched.status = "none"
  /\ watched' = [ watched EXCEPT !.status = "running", !.child = "running" ]
  /\ UNCHANGED notWatch

\* addSessionExitListener(listener); throws: the listener throws when called
addSessionExitListener(l, throws) ==
  /\ l \notin watched.registered
  /\ watched.calls[l] = 0
  /\ watched' = [ watched EXCEPT !.registered = @ \cup { l },
                                 !.throwing = IF throws THEN @ \cup { l } ELSE @ ]
  /\ UNCHANGED notWatch

\* the function addSessionExitListener returned: sessionExitListeners.delete
removeSessionExitListener(l) ==
  /\ l \in watched.registered
  /\ watched' = [ watched EXCEPT !.registered = @ \ { l }, !.throwing = @ \ { l } ]
  /\ UNCHANGED notWatch

WatchedChunks == UNION { Chunks(text) : text \in { << >>, << 1 >>, << 1, 2 >>, << 1, 2, 3 >> } }

\* child.stdout.on('data') / child.stderr.on('data'): the streams deliver
\* data until the child's 'close'
streamData(stream, chunk) ==
  /\ chunk \in Chunks(IF stream = "stdout" THEN watched.stdout ELSE watched.stderr)
  /\ watched.child = "running"
  /\ watched.chunks < MaxChunks
  /\ watched' = IF stream = "stdout"
                  THEN [ watched EXCEPT !.chunks = @ + 1, !.stdout = trimOutput(@ \o chunk) ]
                  ELSE [ watched EXCEPT !.chunks = @ + 1, !.stderr = trimOutput(@ \o chunk) ]
  /\ UNCHANGED notWatch

\* child.on('error'): emitted, at most once here, for a child that could
\* not be spawned or could not be signalled; the child's streams are not
\* closed by it
watchedChildError ==
  /\ watched.child = "running"
  /\ ~watched.errorFired
  /\ watched' = [ finalizeWatched(watched, -1, TRUE) EXCEPT !.errorFired = TRUE ]
  /\ UNCHANGED notWatch

\* child.on('close', code): the child has ended and its streams are closed
watchedChildClose(code) ==
  /\ watched.child = "running"
  /\ watched' = [ finalizeWatched(watched, IF code = NoCode THEN -1 ELSE code, FALSE)
                    EXCEPT !.child = "closed" ]
  /\ UNCHANGED notWatch

NextWatch ==
  \/ startWatchedSession
  \/ \E l \in Listeners, throws \in BOOLEAN : addSessionExitListener(l, throws)
  \/ \E l \in Listeners : removeSessionExitListener(l)
  \/ \E stream \in { "stdout", "stderr" }, chunk \in WatchedChunks : streamData(stream, chunk)
  \/ watchedChildError
  \/ \E code \in ExitCodes : watchedChildClose(code)
  \/ Tick

\* ======================================================================
\* The cron scheduler: timers, firings and the cron routes that schedule
\* (src/unnamed/part_002, src/src/server.mjs)
\* ======================================================================

MaxTimers == 3
TimerIds == 1..MaxTimers
NoTimer == 0

\* The callback of a timer: idle until the timer fires, adding while its
\* addPendingRun is awaited, done when it has armed the next timer.
IdleCallback == [ pc |-> "idle", addCalls |-> 0, rearmed |-> FALSE ]

\* timers = new Map(), no job, scheduler not started.  Per job: job is the
\* job of the store, map the timer of the timers map, armed the timers
\* that are set and have not fired.  unscheduled: unscheduleJob, or
\* rescheduleJob with enabled=false, returned and nothing has scheduled the
\* job since; recordedAfter: a firing was recorded since then.
SchedInit ==
  sched = [ started |-> FALSE,
            jobs |-> [ id \in TaskIds |->
              [ job |-> [ exists |-> FALSE, enabled |-> FALSE ],
                map |-> NoTimer, armed |-> {},
                callback |-> [ t \in TimerIds |-> IdleCallback ],
                unscheduled |-> FALSE, recordedAfter |-> FALSE ] ] ]

\* Timers that are neither armed, nor in the map, nor running a callback
FreeTimers(j) ==
  { t \in TimerIds : t \notin j.armed /\ t # j.map /\ j.callback[t].pc # "adding" }

\* scheduleJob(job): if (!job.enabled) return; setTimeout; timers.set
scheduleJob(j, enabled) ==
  IF ~enabled THEN j
  ELSE LET t == CHOOSE f \in FreeTimers(j) : \A g \in FreeTimers(j) : f <= g
       IN  [ j EXCEPT !.armed = @ \cup { t }, !.map = t, !.callback[t] = IdleCallback ]

\* unscheduleJob(taskId): clearTimeout(timers.get(taskId)); timers.delete
unscheduleJob(j) ==
  IF j.map # NoTimer THEN [ j EXCEPT !.armed = @ \ { j.map }, !.map = NoTimer ] ELSE j

\* rescheduleJob(job)
rescheduleJob(j, enabled) == scheduleJob(unscheduleJob(j), enabled)

\* startCronScheduler(): scheduleJob for every enabled job of the store
startCronScheduler ==
  /\ ~sched.started
  /\ \A id \in TaskIds : FreeTimers(sched.jobs[id]) # {}
  /\ sched' = [ started |-> TRUE,
                jobs |-> [ id \in TaskIds |->
                  LET j == sched.jobs[id]
                      enabled == j.job.exists /\ j.job.enabled
                  IN  [ scheduleJob(j, enabled) EXCEPT
                          !.unscheduled = IF enabled THEN FALSE ELSE @ ] ] ]
  /\ UNCHANGED notSched

\* POST /api/cron/jobs: await upsertJob(body); rescheduleJob(body)
cronUpsert(id, enabled) ==
  LET j == sched.jobs[id]
  IN  /\ FreeTimers(unscheduleJob(j)) # {}
      /\ sched' = [ sched EXCEPT !.jobs[id] =
           [ rescheduleJob(j, enabled) EXCEPT
               !.job = [ exists |-> TRUE, enabled |-> enabled ],
               !.unscheduled = ~enabled,
               !.recordedAfter = FALSE ] ]
      /\ UNCHANGED notSched

\* DELETE /api/cron/jobs/:id: unscheduleJob(taskId); await removeJob(taskId)
cronDelete(id) ==
  LET j == sched.jobs[id]
  IN  /\ j.job.exists
      /\ sched' = [ sched EXCEPT !.jobs[id] =
           [ unscheduleJob(j) EXCEPT
               !.job = [ exists |-> FALSE, enabled |-> FALSE ],
               !.unscheduled = TRUE,
               !.recordedAfter = FALSE ] ]
      /\ UNCHANGED notSched

\* The timer fires: its callback calls addPendingRun(job.id), which pushes
\* the pending entry and awaits the save
timerFires(id, t) ==
  LET j == sched.jobs[id]
  IN  /\ t \in j.armed
      /\ sched' = [ sched EXCEPT !.jobs[id] =
           [ j EXCEPT !.armed = @ \ { t },
                      !.callback[t] = [ IdleCallback EXCEPT !.pc = "adding", !.addCalls = 1 ],
                      !.recordedAfter = @ \/ j.unscheduled ] ]
      /\ UNCHANGED notSched

\* try { await addPendingRun(job.id) } catch { ... }; scheduleJob(job):
\* the job of the closure is the enabled job the timer was armed for
nextTimer_SkipOnFailure(j, ok) == IF ok THEN scheduleJob(j, TRUE) ELSE j

nextTimer(j, ok) == scheduleJob(j, TRUE)

\* addPendingRun settles (ok, or its save failed and the catch logs it)
\* and the callback goes on to arm the next timer
addPendingSettled(id, t, ok) ==
  LET j == sched.jobs[id]
      next == nextTimer(j, ok)
  IN  /\ j.callback[t].pc = "adding"
      /\ FreeTimers(j) # {}
      /\ sched' = [ sched EXCEPT !.jobs[id] =
           [ next EXCEPT
               !.callback[t] = [ @ EXCEPT !.pc = "done",
                                          !.rearmed = next.armed # j.armed ] ] ]
      /\ UNCHANGED notSched

NextSched ==
  \/ startCronScheduler
  \/ \E id \in TaskIds, enabled \in BOOLEAN : cronUpsert(id, enabled)
  \/ \E id \in TaskIds : cronDelete(id)
  \/ \E id \in TaskIds, t \in TimerIds : timerFires(id, t)
  \/ \E id \in TaskIds, t \in TimerIds, ok \in BOOLEAN : addPendingSettled(id, t, ok)

\* The scheduler with jobs that are created enabled and then left alone
cronCreate(id) ==
  /\ ~sched.jobs[id].job.exists
  /\ cronUpsert(id, TRUE)

NextSchedFire ==
  \/ startCronScheduler
  \/ \E id \in TaskIds : cronCreate(id)
  \/ \E id \in TaskIds, t \in TimerIds : timerFires(id, t)
  \/ \E id \in TaskIds, t \in TimerIds, ok \in BOOLEAN : addPendingSettled(id, t, ok)

\* A timer that is due fires, and the save of addPendingRun settles
SchedFairness ==
  /\ \A id \in TaskIds : WF_vars(\E t \in TimerIds : timerFires(id, t))
  /\ \A id \in TaskIds :
       WF_vars(\E t \in TimerIds, ok \in BOOLEAN : addPendingSettled(id, t, ok))

\* ==================================================================
Init ==
  /\ now = 1
  /\ CronInit
  /\ HttpInit
  /\ SessInit
  /\ RunInit
  /\ ApprovalInit
  /\ McpInit
  /\ ExecInit
  /\ PolicyInit
  /\ SessionRunInit
  /\ DaemonInit
  /\ IdRouteInit
  /\ TransportInit
  /\ DiskInit
  /\ LoadInit
  /\ PersistInit
  /\ WatchInit
  /\ SchedInit

SpecSession == Init /\ [][NextSession]_vars
SpecSessionEvents == Init /\ [][NextSessionEvents]_vars

SpecCron == Init /\ [][NextCron]_vars

SpecRuns == Init /\ [][NextRuns]_vars
SpecRunFiles == Init /\ [][NextRunFiles]_vars

SpecApprovals == Init /\ [][NextApprovals]_vars
SpecApprovalFiles == Init /\ [][NextApprovalFiles]_vars

SpecMcp == Init /\ [][NextMcp]_vars

SpecExec == Init /\ [][NextExec]_vars
SpecExecLive == Init /\ [][NextExec]_vars /\ ExecFairness

SpecPolicy == Init /\ [][NextPolicy]_vars

SpecDaemon == Init /\ [][NextDaemon]_vars

SpecIdRoutes == Init /\ [][NextIdRoutes]_vars

SpecTransport == Init /\ [][NextTransport]_vars

SpecDisk == Init /\ [][NextDisk]_vars

SpecLoad == Init /\ [][NextLoad]_vars

SpecPersist == Init /\ [][NextPersist]_vars

SpecWatch == Init /\ [][NextWatch]_vars

SpecSched == Init /\ [][NextSched]_vars

SpecSchedFire == Init /\ [][NextSchedFire]_vars /\ SchedFairness

SpecSessionRuns == Init /\ [][NextSessionRuns]_vars /\ SessionRunFairness

NextHttp ==
  \/ \E remote \in RemoteAddrs, mp \in Requests, auth \in AuthHeaders :
       handleRequest(remote, mp[1], mp[2], auth)
  \/ Tick

SpecHttp == Init /\ [][NextHttp]_vars

\* The loopback set as the claims spell it.
ClaimedLoopback == { "127.0.0.1", "::1", "::ffff:127.0.0.1" }

\* C2 (as claimed): every request whose remote address is not a loopback
\* address is answered 401, whatever its method, path and credentials.  The
\* CORS preflight, which the request pipeline answers before anything else, is
\* left aside.
C2_NonLoopbackAlways401 ==
  (/\ lastResponse.status # 0
   /\ lastResponse.kind # "preflight"
   /\ lastResponse.remote \notin ClaimedLoopback)
    => lastResponse.status = 401

\* C3: once AUTH_MAX_FAILURES authentication failures lie within the last
\* AUTH_WINDOW_MS, every request that reaches the auth check (a routed request
\* from a loopback address) is answered 401, the correct token included; the
\* rejections made while limited do not count as failures, so as soon as fewer
\* than AUTH_MAX_FAILURES failures lie within the window a request with the
\* correct token is not answered 401.
C3_RateLimit ==
  (lastResponse.kind = "route" /\ lastResponse.remote \in ClaimedLoopback)
    => /\ lastResponse.windowFull => lastResponse.status = 401
       /\ (~lastResponse.windowFull /\ lastResponse.auth = "Bearer secret")
            => lastResponse.status # 401

\* C3 witness: a loopback request with the correct token was rejected because
\* the window held AUTH_MAX_FAILURES failures.
C3_Witness ==
  /\ lastResponse.kind = "route"
  /\ lastResponse.remote \in ClaimedLoopback
  /\ lastResponse.auth = "Bearer secret"
  /\ lastResponse.windowFull
  /\ lastResponse.status = 401

\* ------------------------------------------------------- session life cycle

\* C4: a session's status changes only from running to exited (so at most
\* once, and never back), whichever of the child's events fire; finishedAt is
\* set exactly when the status is exited, and is then no earlier than
\* startedAt.
C4_Lifecycle ==
  /\ [](\A id \in DOMAIN sess :
         /\ sess[id].status \in { "running", "exited" }
         /\ (sess[id].finishedAt # NoTime) <=> (sess[id].status = "exited")
         /\ sess[id].status = "exited" => sess[id].finishedAt >= sess[id].startedAt)
  /\ [][\A id \in DOMAIN sess :
          sess'[id].status # sess[id].status =>
            sess[id].status = "running" /\ sess'[id].status = "exited"]_vars

\* Both of the child's events have fired on a session that exited later than
\* it started.
C4_Witness ==
  \E id \in DOMAIN sess :
    /\ sess[id].status = "exited"
    /\ sess[id].errorFired /\ sess[id].closeFired
    /\ sess[id].finishedAt > sess[id].startedAt

\* ----------------------------------------------------------- event cursors

\* C5 (as claimed): every session_exited event receives a cursor strictly
\* greater than every cursor assigned before it.
C5_CursorsIncrease ==
  issued.last # 0 => issued.last > issued.maxBefore

\* C6 (as claimed): a client that polls with after = the last nextCursor has
\* been handed every retained event, and none twice, once a poll of its own
\* answers hasMore = false.
C6_PollingSeesRetained ==
  /\ ~poll.twice
  /\ (lastList.valid /\ lastList.byPoll /\ ~lastList.result.hasMore) =>
       \A i \in 1..Len(sessionEvents) : sessionEvents[i].sessionId \in poll.seen

\* ---------------------------------------------------------------- run store

\* C7 (as claimed): every run that is done or failed has finishedAt set, and
\* every run that is running or retrying has startedAt set.
C7_TimestampsFollowState ==
  \A i \in 1..Len(runStore) :
    /\ runStore[i].state \in { "done", "failed" } => runStore[i].finishedAt # Absent
    /\ runStore[i].state \in { "running", "retrying" } => runStore[i].startedAt # Absent

\* C8: updateRun on a run of the store leaves its runId and createdAt alone;
\* when the resulting state is done or failed and neither the run nor the patch
\* has a finishedAt, finishedAt becomes the time of the update, and a
\* finishedAt the run has and the patch does not touch is kept; likewise
\* startedAt, for running and retrying.  updateRun on an id the store does not
\* hold returns null and leaves the store as it is.
C8_UpdateRun ==
  [][\A call \in UpdateCalls :
       (runResult'.op = "updateRun" /\ updateRun(call[1], call[2])) =>
         LET runId == call[1]
             patch == call[2]
             held == { i \in 1..Len(runStore) : runStore[i].runId = runId }
         IN IF held = {}
            THEN runResult'.value = Null /\ runStore' = runStore
            ELSE /\ Len(runStore') = Len(runStore)
                 /\ \A i \in held :
                      LET old == runStore[i]
                          new == runStore'[i]
                          noFinishedAt ==
                            old.finishedAt = Absent /\ patch.finishedAt \in { NoKey, Absent }
                          noStartedAt ==
                            old.startedAt = Absent /\ patch.startedAt \in { NoKey, Absent }
                      IN /\ runResult'.value = new
                         /\ new.runId = old.runId
                         /\ new.createdAt = old.createdAt
                         /\ (new.state \in { "done", "failed" } /\ noFinishedAt)
                              => new.finishedAt = now
                         /\ (new.state \in { "running", "retrying" } /\ noStartedAt)
                              => new.startedAt = now
                         /\ (old.finishedAt # Absent /\ patch.finishedAt = NoKey)
                              => new.finishedAt = old.finishedAt
                         /\ (old.startedAt # Absent /\ patch.startedAt = NoKey)
                              => new.startedAt = old.startedAt]_vars

\* An update, later than the creation, has filled finishedAt in and kept the
\* startedAt the run had.
C8_Witness ==
  /\ runResult.op = "updateRun"
  /\ runResult.value # Null
  /\ runResult.value.state \in { "done", "failed" }
  /\ runResult.value.finishedAt = runResult.value.updatedAt
  /\ runResult.value.updatedAt > runResult.value.createdAt
  /\ runResult.value.startedAt \in { 0, 1 }
  /\ runResult.value.startedAt < runResult.value.createdAt

\* C9: the store holds at most MAX_RUNS runs: the last ones of those loaded
\* and then created, in the order of their creation.
C9_MostRecentRuns ==
  loaded =>
    LET kept == Min(MAX_RUNS, Len(created))
    IN /\ Len(runStore) <= MAX_RUNS
       /\ [ i \in 1..Len(runStore) |-> runStore[i].runId ]
            = SubSeq(created, Len(created) - kept + 1, Len(created))

\* A createRun has pushed the oldest run out of a full store.
C9_Witness ==
  /\ runResult.op = "createRun"
  /\ Len(created) > MAX_RUNS
  /\ Len(runStore) = MAX_RUNS
  /\ runStore[MAX_RUNS] = runResult.value

\* C10: loadRunStore completes whatever the files hold; it removes
\* runs.json.tmp; when runs.json does not parse and runs.json.bak is a
\* snapshot, the store is that snapshot; when neither file is a snapshot the
\* store is empty.
C10_LoadRecovers ==
  [][loadRunStore =>
       /\ loaded'
       /\ runsTmp' = Enoent
       /\ (runsFile.kind = "malformed" /\ runsBackup.kind = "json")
            => runStore' = runsBackup.runs
       /\ (runsFile.kind # "json" /\ runsBackup.kind # "json")
            => runStore' = << >>]_vars

\* A load has recovered a store of two runs from the backup of a damaged
\* runs.json.
C10_Witness ==
  /\ runResult.op = "loadRunStore"
  /\ runLog = "Recovered from backup runs.json.bak"
  /\ runsFile = Malformed
  /\ Len(runStore) = MAX_RUNS
  /\ runStore = runsBackup.runs
  /\ runsTmp = Enoent

\* C11: after resolveApproval returns for a record that was pending, whatever
\* the resolution value, the record's status is approved, rejected or
\* expired.
C11_ResolveLeavesPending ==
  approvalResult.op = "resolveApproval" /\ approvalResult.current.status = "pending"
    => approvalResult.value.status \in { "approved", "rejected", "expired" }

\* C12: resolveApproval on a record that is already resolved returns the
\* record as it is and changes nothing in the store: status, resolvedAt and
\* resolvedBy stay.
C12_ResolvedIsFinal ==
  [][ approvalResult'.op = "resolveApproval" =>
        \A id \in ResolveIds :
          LET index == findApproval(ensureLoadedApprovals, id)
              resolved == IF index = 0 THEN FALSE
                          ELSE ensureLoadedApprovals[index].status
                                 \in { "approved", "rejected", "expired" }
          IN  resolved =>
                \A resolution \in Resolutions, resolvedBy \in ResolvedBys :
                  resolveApproval(id, resolution, resolvedBy)
                    => /\ approvalStore' = ensureLoadedApprovals
                       /\ approvalResult'.value = ensureLoadedApprovals[index] ]_vars

\* A second resolution, by somebody else and with another verdict, of a
\* record that was resolved before.
C12_Witness ==
  /\ approvalResult.op = "resolveApproval"
  /\ approvalResult.current.status = "approved"
  /\ approvalResult.current.resolvedBy = Undefined
  /\ approvalResult.current.resolvedAt < now

\* The startServer calls, direct or through restartServer, that passed the
\* lock and have not returned.
StartsInFlight(name) ==
  { c \in DOMAIN calls : /\ calls[c].name = name
                         /\ calls[c].pc \in { "stopServer", "spawn", "initialize",
                                              "tools/list" } }

\* C13: of the startServer(n) calls that overlap at most one is past the lock,
\* so at most one spawns; the lock is held exactly while that call has not
\* settled, whether it then succeeds or fails; and a call made while the
\* lock is held is rejected with 'already starting', spawns nothing and
\* leaves the entry as it is.
C13_StartLock ==
  /\ [](\A name \in ConfiguredServers :
          /\ Cardinality(StartsInFlight(name)) <= 1
          /\ name \in startingLocks <=> StartsInFlight(name) # {}
          /\ Cardinality({ p \in DOMAIN procs : procs[p].state = "spawning" }) <= 1)
  /\ [][ \A name \in ConfiguredServers :
           name \in startingLocks /\ startServer(name)
             => /\ servers' = servers
                /\ procs' = procs
                /\ startingLocks' = startingLocks
                /\ calls'[Len(calls')].pc = "rejected"
                /\ calls'[Len(calls')].result.error = "already starting" ]_vars

\* A second startServer was rejected while the first is still starting.
C13_Witness ==
  \E c, d \in DOMAIN calls :
    /\ calls[c].op = "startServer"
    /\ calls[c].pc = "initialize"
    /\ calls[d].op = "startServer"
    /\ calls[d].result.error = "already starting"

\* C14: an entry's tool list is non-empty only while its status is
\* connected, whatever the interleaving of startServer, stopServer,
\* restartServer and the child's exit and error events.
C14_ToolsOnlyConnected ==
  \A name \in ConfiguredServers :
    servers[name].tools # {} => servers[name].status = "connected"

\* A connected server with tools, with a tool call in flight on it.
C14_Witness ==
  \E name \in ConfiguredServers, c \in DOMAIN calls :
    /\ servers[name].tools # {}
    /\ calls[c].pc = "tools/call"
    /\ calls[c].settle = "none"

\* The causes the claim lists for { ok: false, error }.
ListedCauses ==
  { "Unknown MCP server", "not connected", "Tool not found", "rpc error", "timed out",
    "Transport closed", "MCP server process exited", "MCP server process error" }

\* C15 as stated: callTool never rejects; it resolves { ok: false, error } for
\* the listed causes, and otherwise { ok: !isError, content, isError }.
C15_CallToolAsStated ==
  \A c \in DOMAIN calls :
    calls[c].op = "callTool" =>
      /\ calls[c].pc # "rejected"
      /\ calls[c].pc = "resolved" =>
            IF calls[c].result.error \in ListedCauses
              THEN ~calls[c].result.ok /\ ~calls[c].result.isError
              ELSE calls[c].result.error = "" /\ calls[c].result.ok = ~calls[c].result.isError

\* C15, amended: callTool never rejects; it resolves { ok: false, error } for
\* the listed causes and for a response that carries no result object, and
\* otherwise { ok: !isError, content, isError }.
C15_CallToolNeverRejects ==
  \A c \in DOMAIN calls :
    calls[c].op = "callTool" =>
      /\ calls[c].pc # "rejected"
      /\ calls[c].pc = "resolved" =>
            IF calls[c].result.error \in ListedCauses \cup { "result: null" }
              THEN ~calls[c].result.ok /\ ~calls[c].result.isError
              ELSE calls[c].result.error = "" /\ calls[c].result.ok = ~calls[c].result.isError

\* A tool call that resolved after the transport was closed under it.
C15_Witness ==
  \E c \in DOMAIN calls :
    /\ calls[c].op = "callTool"
    /\ calls[c].pc = "resolved"
    /\ calls[c].result.error = "Transport closed"

\* C16: the stdout and stderr a one-shot exec holds and returns have at most
\* MAX_OUTPUT_CHARS characters each, on every path, the path that appends
\* the error message to stderr included; what is held is the newest
\* characters of what the child wrote.
C16_OutputBound ==
  /\ Len(exec.stdout) <= MAX_OUTPUT_CHARS
  /\ Len(exec.stderr) <= MAX_OUTPUT_CHARS
  /\ exec.stdout = trimOutput(execOut.stdout)
  /\ Len(exec.result.stdout) <= MAX_OUTPUT_CHARS
  /\ Len(exec.result.stderr) <= MAX_OUTPUT_CHARS

\* C17: once the timeout of a runCommand fired and SIGTERM went to a child
\* that ignores it but dies on SIGKILL, runCommand resolves, with timedOut
\* true and ok false.
C17_TimeoutResolves ==
  (exec.timedOut /\ exec.killed /\ ~exec.handlesTerm)
    ~> (exec.pc = "resolved" /\ exec.result.timedOut /\ ~exec.result.ok)

\* The request supplies a mode, and it is not full or workspace.
SuppliedUnknownMode(input) ==
  /\ input.mode.type # "undefined"
  /\ \/ input.mode.type # "string"
     \/ toLowerCase(trimString(input.mode.text)) \notin { FullText, WorkspaceText }

\* C19: normalizePermissionPolicy returns mode full or workspace, with no
\* roots when the mode is full; a supplied mode that is not full or
\* workspace gives workspace when strict is off and an error when strict is
\* on; and the policy-update route sets mode full only for a request whose
\* mode is the value full.
C19_NormalizePolicy ==
  lastPolicyCall.kind \in { "normalize", "postPolicy" } =>
    /\ lastPolicyCall.policy # PolicyError =>
         /\ lastPolicyCall.policy.mode \in { PERMISSION_MODE_FULL, PERMISSION_MODE_WORKSPACE }
         /\ lastPolicyCall.policy.mode = PERMISSION_MODE_FULL
              => lastPolicyCall.policy.workspaceRoots = << >>
    /\ SuppliedUnknownMode(lastPolicyCall.input) =>
         IF lastPolicyCall.strict THEN lastPolicyCall.policy = PolicyError
         ELSE lastPolicyCall.policy.mode = PERMISSION_MODE_WORKSPACE
    /\ ( /\ lastPolicyCall.kind = "postPolicy"
         /\ lastPolicyCall.policy # PolicyError
         /\ currentPermissionPolicy.mode = PERMISSION_MODE_FULL )
         => /\ lastPolicyCall.input.mode.type = "string"
            /\ toLowerCase(trimString(lastPolicyCall.input.mode.text)) = FullText

\* The candidates of a token as the contract lists them: the token with one
\* quote layer stripped, and its suffix after '='.
ClaimedCandidates(token) ==
  LET clean == stripQuotes(token)
      eqIdx == indexOf(clean, "=")
  IN  IF eqIdx > 0 /\ eqIdx < Len(clean) - 1
        THEN { sliceFrom(clean, eqIdx + 1), clean }
        ELSE { clean }

CandidateOutside(command, cwd, roots) ==
  \E t \in 1..Len(commandTokens(command)) :
    \E candidate \in ClaimedCandidates(commandTokens(command)[t]) :
      /\ looksLikePath(candidate)
      /\ ~isPathWithinRoots(normalizeCandidateToAbsolute(candidate, cwd), roots)

C21_ShutdownFlushes ==
  daemon.pc = "exited" =>
    /\ daemon.runs = "clean"
    /\ daemon.approvals = "clean"
    /\ daemon.sessionChild \in { "none", "signalled" }
    /\ daemon.mcpChild \in { "none", "signalled" }

\* C22: a well-formed authorized request addressed to an unknown session
\* id (status, stop, log, write, send-keys), an unknown run id or an unknown
\* approval id, or to an unmatched route, is answered with status 404.
C22_UnknownIs404 ==
  ( /\ idResponse.route \in IdRoutes
    /\ idResponse.input = "valid"
    /\ ~idResponse.known )
  => idResponse.status = 404

\* C23: ackPendingRuns(ids) removes every pending entry whose taskId is in
\* ids and leaves the other pending entries, in their order, and all jobs
\* as they were; with an empty or non-array ids neither the store nor its
\* file changes.
C23_AckFrame ==
  ackResult.op = "ackPendingRuns" =>
    LET before == ackResult.store
        ids == ackResult.taskIds.ids
        kept == { i \in 1..Len(before.pending) : before.pending[i].taskId \notin ids }
        nth(k) == CHOOSE i \in kept : Cardinality({ j \in kept : j <= i }) = k
    IN  IF ackResult.taskIds.isArray /\ ids # {}
          THEN /\ cronStore.jobs = before.jobs
               /\ Len(cronStore.pending) = Cardinality(kept)
               /\ \A k \in 1..Len(cronStore.pending) :
                    cronStore.pending[k] = before.pending[nth(k)]
               /\ cronFile = [ exists |-> TRUE, content |-> cronStore ]
          ELSE cronStore = before /\ cronFile = ackResult.file

\* An acknowledgement of one task removed its two entries and kept the
\* entry of the other task, which lay between them, and a job.
C23_Witness ==
  /\ ackResult.op = "ackPendingRuns"
  /\ ackResult.taskIds = [ isArray |-> TRUE, ids |-> { "task-a" } ]
  /\ Len(ackResult.store.pending) = 3
  /\ ackResult.store.pending[1].taskId = "task-a"
  /\ ackResult.store.pending[2].taskId = "task-b"
  /\ ackResult.store.pending[3].taskId = "task-a"
  /\ Len(cronStore.pending) = 1
  /\ cronStore.jobs # << >>

\* C24: every request issued on a transport is settled exactly once - by
\* its response, its timeout, close() or the child's exit or error - and
\* its pending entry is removed at that moment; a later response finds no
\* entry; a timeout settles its own request only and leaves the others
\* pending and the transport open; the ids handed out are 1, 2, 3, ...
C24_Settled(t) ==
  /\ \A id \in RequestIdsOf :
       /\ id >= t.nextId => id \notin t.pending /\ t.settled[id] = << >>
       /\ id < t.nextId /\ id \in t.pending => t.settled[id] = << >> /\ id \in t.timers
       /\ id < t.nextId /\ id \notin t.pending => Len(t.settled[id]) = 1 /\ id \notin t.timers
  /\ t.closed => t.pending = {}
  /\ \A k \in 1..Len(t.issued) :
       t.issued[k] > 0 /\ (k > 1 => t.issued[k] > t.issued[k - 1])

C24_SettledOnce ==
  [][ /\ C24_Settled(transport')
      /\ \A id \in RequestIdsOf :
           transportTimeout(id) =>
             /\ transport'.pending = transport.pending \ { id }
             /\ transport'.closed = transport.closed
             /\ \A other \in RequestIdsOf \ { id } :
                  transport'.settled[other] = transport.settled[other]
      /\ \A id \in RequestIdsOf :
           transport.settled[id] # << >> => transport'.settled[id] = transport.settled[id] ]_vars

\* Three requests were settled in three ways: the first by its response,
\* the second by its timeout while the third stayed pending, the third by
\* close().
C24_Witness ==
  /\ transport.settled[1] = << "result" >>
  /\ transport.settled[2] = << "timeout" >>
  /\ transport.settled[3] = << "close" >>
  /\ transport.closed

\* C25: close() sends SIGTERM to a running child; when the 3 s timer
\* fires with the child still running, SIGKILL has been sent;
\* when the child exited before it, no SIGKILL is sent.
C25_KillAfterTerminate ==
  /\ transport.killTimer # "none" /\ transport.child = "running"
       => Len(transport.signals) > 0 /\ transport.signals[1] = "SIGTERM"
  /\ transport.killTimer = "fired" /\ transport.child = "running"
       => transport.signals = << "SIGTERM", "SIGKILL" >>
  /\ transport.killTimer = "cleared" => transport.signals = << "SIGTERM" >>

\* C26: after a crash at any step of a write, the file of each of the four stores holds one version of the store
\* completely: the previous one or the new one.
C26_AtomicWrites ==
  storeDisk.crashed =>
    \A s \in DiskStores :
      LET st == storeDisk.stores[s]
      IN  /\ st.target.exists /\ st.target.complete
          /\ st.target.version \in { st.version, st.version - 1 }

\* C27: at most one load of the runs store is in flight at any time.
C27_OneLoadInFlight ==
  Cardinality({ o \in LoadOrigins : runLoad.load[o] \in LoadInFlight }) <= 1

\* C28: each store has at most one debounce timer armed; when the flush of
\* a store resolves, the store's file holds every mutation accepted before
\* the flush was called and no write of the store is in flight.
C28_FlushComplete ==
  \A s \in StoreNames :
    /\ persist[s].timers <= 1
    /\ persist[s].flush.pc = "resolved" =>
         /\ persist[s].flush.fileAtResolve >= persist[s].flush.accepted
         /\ ~persist[s].flush.inFlightAtResolve

\* C29: a session that has exited has exactly one session_exited event,
\* and every listener registered at the moment of the exit was called
\* exactly once, with the snapshot of the exited session; this also when
\* both 'error' and 'close' fired and when a listener throws.
C29_ExitNotifiedOnce ==
  /\ watched.status # "exited" =>
       watched.exitedEvents = 0 /\ \A l \in Listeners : watched.calls[l] = 0
  /\ watched.status = "exited" =>
       /\ watched.exitedEvents = 1
       /\ watched.atExit.snapshot.status = "exited"
       /\ \A l \in Listeners :
            IF l \in watched.atExit.registered
              THEN watched.calls[l] = 1 /\ watched.given[l] = watched.atExit.snapshot
              ELSE watched.calls[l] = 0

\* Both events of the child fired, two listeners were registered at the
\* exit and one of them throws.
C29_Witness ==
  /\ watched.status = "exited"
  /\ watched.errorFired
  /\ watched.child = "closed"
  /\ watched.atExit.registered = Listeners
  /\ "l1" \in watched.throwing
  /\ \A l \in Listeners : watched.calls[l] = 1

\* C30: an exited session keeps the stdout, stderr, exitCode and
\* finishedAt it had when it became exited.
C30_FrozenAfterExit ==
  watched.status = "exited" =>
    makeSessionSnapshot(watched) = watched.atExit.snapshot

\* C31: the live session map never holds more than MAX_SESSION_COUNT
\* sessions.
C31_SessionCap ==
  Len(sessionMap) <= MAX_SESSION_COUNT

\* C32: once unscheduleJob(id), or rescheduleJob of the job with
\* enabled=false, has returned, and until the job is scheduled again, no
\* timer of the id is armed or in the timers map and no firing of the id
\* is recorded.
C32_UnscheduledStaysQuiet ==
  \A id \in TaskIds :
    sched.jobs[id].unscheduled =>
      /\ sched.jobs[id].armed = {}
      /\ sched.jobs[id].map = NoTimer
      /\ ~sched.jobs[id].recordedAfter

\* C34: per job id at most one timer is armed, and an armed timer is the
\* one in the timers map.
C34_OneTimerPerJob ==
  \A id \in TaskIds :
    /\ Cardinality(sched.jobs[id].armed) <= 1
    /\ sched.jobs[id].armed \subseteq { sched.jobs[id].map }

\* C33: a callback of a fired timer has called addPendingRun once and,
\* when it is done, has armed the next timer, whether addPendingRun failed
\* or not; an enabled job that nothing unschedules fires, and after a
\* firing it is armed again, so it fires again and again.
C33_FiresAgain ==
  /\ [](\A id \in TaskIds, t \in TimerIds :
          LET c == sched.jobs[id].callback[t]
          IN  /\ c.pc = "adding" => c.addCalls = 1
              /\ c.pc = "done" => c.addCalls = 1 /\ c.rearmed)
  /\ \A id \in TaskIds :
       /\ (sched.jobs[id].job.exists /\ sched.jobs[id].job.enabled)
            ~> (\E t \in TimerIds : sched.jobs[id].callback[t].pc = "adding")
       /\ (\E t \in TimerIds : sched.jobs[id].callback[t].pc = "adding")
            ~> (sched.jobs[id].armed # {})

\* A job has fired twice: the callback of its second timer is done and
\* armed the next timer, which took the place of the first.
C33_Witness ==
  \E id \in TaskIds :
    /\ sched.jobs[id].callback[2].pc = "done" /\ sched.jobs[id].callback[2].rearmed
    /\ sched.jobs[id].callback[1].pc = "idle"
    /\ sched.jobs[id].map = 1
    /\ sched.jobs[id].armed = { 1 }

\* C35: an entry whose status is connected has a transport that is open
\* and a child that has not exited.
C35_ConnectedIsAlive ==
  \A name \in ConfiguredServers :
    servers[name].status = "connected" =>
      /\ servers[name].transport # NoProc
      /\ procs[servers[name].transport].transport = "open"
      /\ procs[servers[name].transport].state = "running"

\* C36: the 'close' or 'error' of a child of which a newer child of the
\* same entry exists, starting or running, leaves the entry as it is.
C36_OldChildIsIgnored ==
  [][ \A p \in DOMAIN procs :
        ( /\ procClose(p) \/ procError(p)
          /\ \E q \in DOMAIN procs :
               q > p /\ procs[q].name = procs[p].name
                     /\ procs[q].state \in { "spawning", "running" } )
        => servers'[procs[p].name] = servers[procs[p].name] ]_vars

\* C37: from the return of stopServer(name) until startServer(name) is
\* called again the entry is stopped, without tools and transport, and
\* every child of the entry that has not exited has been sent a signal.
C37_StoppedStaysStopped ==
  \A name \in stopReturned :
    /\ servers[name] = StoppedEntry
    /\ \A p \in DOMAIN procs :
         procs[p].name = name /\ procs[p].state \in { "spawning", "running" }
           => procs[p].signal # "none"

\* C38: at most one write of the runs store is executing at any time: two
\* executions of writeStoreNow never overlap on runs.json.tmp, whether
\* started by the debounce timer or by flushRunStore.
C38_OneWriteAtATime ==
  Cardinality(InFlight(persist["runs"])) <= 1

\* C39: a run returned by createRun stays in the in-memory store until
\* FIFO trimming removes it; a load of the store that completes later
\* never discards it.
C39_LoadKeepsCreatedRuns ==
  runLoad.discarded = 0

\* C40: no approval record is resolved as approved at a time at or after
\* its expiresAt: a pending record whose expiresAt has passed, which
\* listPendingApprovals no longer returns, cannot become approved through
\* resolveApproval.
C40_NoApprovalAfterExpiry ==
  \A i \in 1..Len(approvalStore) :
    approvalStore[i].status = "approved"
      => approvalStore[i].resolvedAt < approvalStore[i].expiresAt

====
